---- MODULE Spec2Model ----
(***************************************************************************)
(* Offer / negotiation / swap decision logic and the transaction ledger of *)
(* the marketplace backend (src/ecommerce_backend/src/api/routers/         *)
(* offers.py, negotiations.py, swaps.py, transactions.py, webhooks.py)     *)
(* over the rows of the listings, offers, negotiations, swaps and          *)
(* transactions tables.                                                    *)
(*                                                                         *)
(* The store variables hold the rows as a request's Session sees them      *)
(* after db.flush(); requests are composed one after another on that view. *)
(* intents holds the payment intents create_payment_intent has answered    *)
(* with; durable (the committed rows) and requests (the handlers under     *)
(* way) are used by the specifications of the session scope and of         *)
(* concurrent requests only.                                               *)
(* The API server is stateless: the state "after construction" is the      *)
(* content of the database it is started against, so Init ranges over      *)
(* bounded schema-valid tables.                                            *)
(*                                                                         *)
(* Failure kinds are the names of spec section 7; each handler's           *)
(* HTTPException is mapped to its kind where it is raised:                 *)
(*   404 -> NotFound, 403 "own listing" -> SelfDealing,                    *)
(*   403 "Only the seller ..." / "Not a party ..." -> NotAParty,           *)
(*   400 "... inactive listing" -> ListingNotActive,                       *)
(*   400 "Amount must be greater than 0" / "Counter must be > 0"           *)
(*       -> InvalidAmount,                                                 *)
(*   400 "... not modifiable ..." / "Only pending offers ..."              *)
(*       -> NotModifiable,                                                 *)
(*   400 "... not negotiable ..." -> NotNegotiable,                        *)
(*   400 "Provide message or counter_amount" -> EmptyPost,                 *)
(*   403 "You must own the proposer listing" -> NotOwner,                  *)
(*   400 "Cannot propose swap with your own listing" -> SelfDealing,       *)
(*   403 "Only the recipient can decide this swap" -> NotCounterparty,     *)
(*   400 "Only proposed swaps can be decided" -> NotDecidable,             *)
(*   404 "Listing not found" (checkout) -> ListingNotFound,                *)
(*   an exception other than HTTPException -> ServerError (HTTP 500),      *)
(*   an exception raised by db.flush() (numeric field overflow)            *)
(*       -> StorageError (HTTP 500, nothing written).                      *)
(***************************************************************************)
EXTENDS Integers, Sequences, FiniteSets, TLC

VARIABLES listings, offers, negotiations, swaps, transactions, intents, ack, event,
          durable, requests, last

vars == <<listings, offers, negotiations, swaps, transactions, intents, ack, event,
          durable, requests, last>>

-----------------------------------------------------------------------------
(* Bounds of the model.                                                    *)

\* number of offer rows in the database the server is started against
MaxOffers == 1

\* number of swap rows the swaps table can grow to
MaxSwaps == 1

\* number of transaction rows the transactions table can grow to
MaxTransactions == 2

\* number of purchases in the specification of every operation together
MaxPurchases == 1

-----------------------------------------------------------------------------
(* Enumerations (models/enums.py).                                         *)

ListingStatus == {"draft", "active", "sold", "archived"}

OfferStatus == {"pending", "accepted", "rejected", "withdrawn", "expired"}

NegotiationStatus == {"open", "closed", "cancelled"}

SwapStatus == {"proposed", "accepted", "rejected", "completed", "cancelled"}

TransactionStatus == {"pending", "succeeded", "failed", "refunded"}

\* str() of a member of a `class X(str, enum.Enum)`: Enum.__str__ gives
\* "<class name>.<member name>", not the member's value.
EnumStr(cls, member) == cls \o "." \o member

-----------------------------------------------------------------------------
(* Users and listings of the model.                                        *)

Users == {"S", "B", "T"}

ListingIds == {"L1"}

SellerOf == [l \in ListingIds |-> "S"]

OfferIds == 1..MaxOffers

\* the listings of the specifications with swaps: S owns L1, B owns L2 and T
\* owns nothing
MarketListingIds == {"L1", "L2"}

MarketSellerOf == [l \in MarketListingIds |-> IF l = "L1" THEN "S" ELSE "B"]

SwapIds == 1..MaxSwaps

-----------------------------------------------------------------------------
(* Decimal amounts.  A value is u + m/1000 with 0 <= m < 1000 (u carries   *)
(* the sign); s is its text as Python formats it in an f-string.           *)

Amt(u, m, s) == [u |-> u, m |-> m, s |-> s]

\* the amounts requests carry as Decimal (offers.py payloads)
DecimalAmounts ==
    { Amt(0 - 5, 0, "-5"), Amt(0, 0, "0"), Amt(0, 4, "0.004"),
      Amt(90, 0, "90.00"), Amt(100000000, 0, "100000000") }

\* the amounts requests carry as float (negotiations.py payload)
FloatAmounts ==
    { Amt(0, 0, "0.0"), Amt(90, 0, "90.0"), Amt(100000000, 0, "100000000.0") }

\* counter_amount: Optional[float] = None
NoAmount == Amt(0, 0, "None")

\* `amount <= 0`
NonPositive(a) == a.u < 0 \/ (a.u = 0 /\ a.m = 0)

\* A stored amount: the column keeps two decimals, m is a multiple of 10.
Stored(u, m) == [u |-> u, m |-> m]

\* Numeric(10, 2): a value written to the column is rounded to two decimals
\* (half away from zero; only positive values are ever written).
Quantize(a) ==
    LET c == (a.m + 5) \div 10
    IN  IF c >= 100 THEN Stored(a.u + 1, 0) ELSE Stored(a.u, c * 10)

\* Numeric(10, 2): at most 8 digits before the decimal point.
NumericLimit == 100000000

\* the flush fails with "numeric field overflow"
NumericOverflow(a) == Quantize(a).u >= NumericLimit

IsPositiveStored(q) == q.u > 0 \/ (q.u = 0 /\ q.m > 0)

-----------------------------------------------------------------------------
(* Message texts.  A text is `lead` blanks, a body without outer blanks,   *)
(* `trail` blanks.                                                         *)

Text(lead, body, trail) == [set |-> TRUE, lead |-> lead, body |-> body, trail |-> trail]

\* message: Optional[str] = None
NoMessage == [set |-> FALSE, lead |-> 0, body |-> "", trail |-> 0]

Messages == { NoMessage, Text(0, "", 0), Text(1, "hi", 1) }

\* `if payload.message:` - None and "" are falsy
Truthy(msg) == msg.set /\ (msg.lead + msg.trail > 0 \/ msg.body # "")

\* payload.message.strip()
Strip(msg) == msg.body

RECURSIVE Join(_)
\* " | ".join(note_parts)
Join(parts) ==
    IF Len(parts) = 0 THEN ""
    ELSE IF Len(parts) = 1 THEN parts[1]
    ELSE parts[1] \o " | " \o Join(Tail(parts))

-----------------------------------------------------------------------------
(* Rows.                                                                   *)

\* a listing id no row has (db.get returns None)
MissingListing == "L0"

\* no offer id (the request names none, or creates none)
MissingOffer == 0

OfferRow(amount, listing_id, buyer_id, status) ==
    [amount |-> amount, listing_id |-> listing_id, buyer_id |-> buyer_id, status |-> status]

NegotiationRow(status, last_message) ==
    [status |-> status, last_message |-> last_message]

\* no swap id, no transaction id (None)
MissingSwap == 0

MissingTransaction == 0

\* the empty table
NoRows == <<>>

SwapRow(listing_id, initiator_id, counterparty_id, status) ==
    [listing_id |-> listing_id, initiator_id |-> initiator_id,
     counterparty_id |-> counterparty_id, status |-> status]

TransactionRow(amount, currency, status, intent, listing_id, buyer_id) ==
    [amount |-> amount, currency |-> currency, status |-> status,
     provider_payment_intent_id |-> intent, listing_id |-> listing_id,
     buyer_id |-> buyer_id]

\* the body the webhook endpoint answers with
WebhookAck(received, verified, action, transaction_id) ==
    [received |-> received, verified |-> verified, action |-> action,
     transaction_id |-> transaction_id]

\* no webhook answered yet
NoAck == WebhookAck(FALSE, FALSE, "None", MissingTransaction)

\* the webhook event last delivered: event["type"], and data.object's "id"
\* and "payment_intent" ("None" for a key the object does not have); object
\* tells whether data.object is a mapping at all
Event(type, id, payment_intent) ==
    [type |-> type, id |-> id, payment_intent |-> payment_intent, object |-> "mapping"]

\* no webhook delivered yet
NoEvent == Event("None", "None", "None")

\* the committed content of the database is not tracked (the specifications
\* that compose requests on the session's view)
NoSnapshot == <<>>

\* no request is being served step by step
NoRequests == <<>>

\* the request just served and its outcome
Request(op, user, id, result) == [op |-> op, user |-> user, id |-> id, result |-> result]

\* offer.negotiation (uselist=False; negotiations.offer_id is unique)
HasNegotiation(o) == o \in DOMAIN negotiations

\* the amount of the offers the database holds at start
InitialAmount == Stored(80, 0)

\* the negotiation rows an offer of the given status may start with: none
\* (the handlers create it lazily), or the one the data model describes
InitialNegotiations(status) ==
    IF status = "pending" THEN { NegotiationRow("open", "Offer created at 80.00") }
    ELSE IF status = "accepted" THEN { NegotiationRow("closed", "Offer accepted") }
    ELSE IF status = "rejected" THEN { NegotiationRow("closed", "Offer declined") }
    ELSE { NegotiationRow("cancelled", "Offer created at 80.00") }

Init ==
    /\ listings \in [ListingIds -> { [seller_id |-> SellerOf[l], status |-> st] :
                                       l \in ListingIds, st \in ListingStatus }]
    /\ \A l \in ListingIds : listings[l].seller_id = SellerOf[l]
    /\ \E n \in 0..MaxOffers :
         /\ offers \in [1..n -> { OfferRow(InitialAmount, l, "B", st) :
                                    l \in ListingIds, st \in OfferStatus }]
         /\ \E withNeg \in SUBSET (1..n) :
              negotiations \in { f \in [withNeg -> UNION { InitialNegotiations(st) : st \in OfferStatus }] :
                                   \A o \in withNeg : f[o] \in InitialNegotiations(offers[o].status) }
    /\ swaps = NoRows
    /\ transactions = NoRows
    /\ ack = NoAck
    /\ event = NoEvent
    /\ intents = {}
    /\ durable = NoSnapshot
    /\ requests = NoRequests
    /\ last = Request("none", "S", MissingOffer, "ok")

-----------------------------------------------------------------------------
(* create_offer_for_listing (offers.py)                                    *)

\* variant: the guard never raises
ListingGuardRaises_Never(listing) == FALSE

\* _ensure_listing_active raises
ListingGuardRaises(listing) ==
    /\ listing.status # ""
    /\ EnumStr("ListingStatus", listing.status) \notin {"active"}

\* variant: the listing guard runs before the ownership check
CreateOfferOutcome_GuardFirst(l, u, a) ==
    IF l \notin DOMAIN listings THEN "NotFound"
    ELSE IF ListingGuardRaises(listings[l]) THEN "ListingNotActive"
    ELSE IF listings[l].seller_id = u THEN "SelfDealing"
    ELSE IF NonPositive(a) THEN "InvalidAmount"
    ELSE IF NumericOverflow(a) THEN "StorageError"
    ELSE "ok"

CreateOfferOutcome(l, u, a) ==
    IF l \notin DOMAIN listings THEN "NotFound"
    ELSE IF listings[l].seller_id = u THEN "SelfDealing"
    ELSE IF ListingGuardRaises(listings[l]) THEN "ListingNotActive"
    ELSE IF NonPositive(a) THEN "InvalidAmount"
    ELSE IF NumericOverflow(a) THEN "StorageError"
    ELSE "ok"

\* uuid4 primary key: an id no row has
NewOfferId == CHOOSE i \in 1..(MaxOffers + 1) : i \notin DOMAIN offers

CreateOffer(l, u, a) ==
    LET r == CreateOfferOutcome(l, u, a) IN
    /\ r = "ok" => Cardinality(DOMAIN offers) <= MaxOffers - 1
    /\ last' = Request("createOffer", u, IF r = "ok" THEN NewOfferId ELSE MissingOffer, r)
    /\ IF r = "ok"
       THEN /\ offers' = offers @@ (NewOfferId :> OfferRow(Quantize(a), l, u, "pending"))
            /\ negotiations' =
                 IF HasNegotiation(NewOfferId) THEN negotiations
                 ELSE negotiations @@
                        (NewOfferId :> NegotiationRow("open", "Offer created at " \o a.s))
       ELSE UNCHANGED <<offers, negotiations>>
    /\ UNCHANGED <<listings, swaps, transactions, ack, event, intents, durable, requests>>

-----------------------------------------------------------------------------
(* counter_offer (offers.py)                                               *)

TerminalStatuses == {"accepted", "rejected", "withdrawn", "expired"}

\* variant: the buyer passes the ownership check too
EnsureCanModifyOfferAsSeller_EitherParty(offer, u) ==
    IF offer.listing_id \notin DOMAIN listings THEN "NotFound"
    ELSE IF u \notin {offer.buyer_id, listings[offer.listing_id].seller_id} THEN "NotAParty"
    ELSE IF offer.status \in TerminalStatuses THEN "NotModifiable"
    ELSE "ok"

\* variant: the status check runs before the ownership check
EnsureCanModifyOfferAsSeller_StatusFirst(offer, u) ==
    IF offer.listing_id \notin DOMAIN listings THEN "NotFound"
    ELSE IF offer.status \in TerminalStatuses THEN "NotModifiable"
    ELSE IF listings[offer.listing_id].seller_id # u THEN "NotAParty"
    ELSE "ok"

\* _ensure_can_modify_offer_as_seller: the kind it raises, "ok" if none
EnsureCanModifyOfferAsSeller(offer, u) ==
    IF offer.listing_id \notin DOMAIN listings THEN "NotFound"
    ELSE IF listings[offer.listing_id].seller_id # u THEN "NotAParty"
    ELSE IF offer.status \in TerminalStatuses THEN "NotModifiable"
    ELSE "ok"

CounterOfferOutcome(o, u, a) ==
    IF o \notin DOMAIN offers THEN "NotFound"
    ELSE IF EnsureCanModifyOfferAsSeller(offers[o], u) # "ok"
         THEN EnsureCanModifyOfferAsSeller(offers[o], u)
    ELSE IF NonPositive(a) THEN "InvalidAmount"
    ELSE IF NumericOverflow(a) THEN "StorageError"
    ELSE "ok"

CounterOffer(o, u, a) ==
    LET r == CounterOfferOutcome(o, u, a) IN
    /\ last' = Request("counter", u, o, r)
    /\ IF r = "ok"
       THEN /\ offers' = [offers EXCEPT ![o].amount = Quantize(a)]
            /\ negotiations' =
                 IF HasNegotiation(o)
                 THEN [negotiations EXCEPT ![o].last_message = "Seller countered to " \o a.s]
                 ELSE negotiations @@
                        (o :> NegotiationRow("open", "Seller countered to " \o a.s))
       ELSE UNCHANGED <<offers, negotiations>>
    /\ UNCHANGED <<listings, swaps, transactions, ack, event, intents, durable, requests>>

-----------------------------------------------------------------------------
(* accept_offer, decline_offer (offers.py)                                 *)

\* variant: only the message is written, the status is left as it was
CloseNegotiation_KeepsStatus(o, msg) ==
    IF HasNegotiation(o)
    THEN [negotiations EXCEPT ![o].last_message = msg]
    ELSE negotiations

\* variant: the negotiation is cancelled instead of closed
CloseNegotiation_Cancels(o, msg) ==
    IF HasNegotiation(o)
    THEN [negotiations EXCEPT ![o] = NegotiationRow("cancelled", msg)]
    ELSE negotiations

\* offer.negotiation.status = closed; offer.negotiation.last_message = msg,
\* when the offer has a negotiation
CloseNegotiation(o, msg) ==
    IF HasNegotiation(o)
    THEN [negotiations EXCEPT ![o] = NegotiationRow("closed", msg)]
    ELSE negotiations

\* variant: no check that the offer is pending
AcceptOfferOutcome_NoStatusCheck(o, u) ==
    IF o \notin DOMAIN offers THEN "NotFound"
    ELSE IF offers[o].listing_id \notin DOMAIN listings THEN "NotFound"
    ELSE IF u \notin {offers[o].buyer_id, listings[offers[o].listing_id].seller_id}
         THEN "NotAParty"
    ELSE "ok"

AcceptOfferOutcome(o, u) ==
    IF o \notin DOMAIN offers THEN "NotFound"
    ELSE IF offers[o].listing_id \notin DOMAIN listings THEN "NotFound"
    ELSE IF u \notin {offers[o].buyer_id, listings[offers[o].listing_id].seller_id}
         THEN "NotAParty"
    ELSE IF offers[o].status # "pending" THEN "NotModifiable"
    ELSE "ok"

AcceptOffer(o, u) ==
    LET r == AcceptOfferOutcome(o, u) IN
    /\ last' = Request("accept", u, o, r)
    /\ IF r = "ok"
       THEN /\ offers' = [offers EXCEPT ![o].status = "accepted"]
            /\ negotiations' = CloseNegotiation(o, "Offer accepted")
       ELSE UNCHANGED <<offers, negotiations>>
    /\ UNCHANGED <<listings, swaps, transactions, ack, event, intents, durable, requests>>

\* variant: no check that the offer is pending
DeclineOfferOutcome_NoStatusCheck(o, u) ==
    IF o \notin DOMAIN offers THEN "NotFound"
    ELSE IF offers[o].listing_id \notin DOMAIN listings THEN "NotFound"
    ELSE IF u \notin {offers[o].buyer_id, listings[offers[o].listing_id].seller_id}
         THEN "NotAParty"
    ELSE "ok"

DeclineOfferOutcome(o, u) ==
    IF o \notin DOMAIN offers THEN "NotFound"
    ELSE IF offers[o].listing_id \notin DOMAIN listings THEN "NotFound"
    ELSE IF u \notin {offers[o].buyer_id, listings[offers[o].listing_id].seller_id}
         THEN "NotAParty"
    ELSE IF offers[o].status # "pending" THEN "NotModifiable"
    ELSE "ok"

DeclineOffer(o, u) ==
    LET r == DeclineOfferOutcome(o, u) IN
    /\ last' = Request("decline", u, o, r)
    /\ IF r = "ok"
       THEN /\ offers' = [offers EXCEPT ![o].status = "rejected"]
            /\ negotiations' = CloseNegotiation(o, "Offer declined")
       ELSE UNCHANGED <<offers, negotiations>>
    /\ UNCHANGED <<listings, swaps, transactions, ack, event, intents, durable, requests>>

-----------------------------------------------------------------------------
(* post_negotiation_for_offer (negotiations.py)                            *)

\* note_parts as built before the emptiness check
NoteParts(msg, ca) ==
    (IF Truthy(msg) THEN <<Strip(msg)>> ELSE <<>>)
      \o (IF ca # NoAmount THEN <<"Countered to " \o ca.s>> ELSE <<>>)

\* variant: only the listing's seller may post
PostNegotiationOutcome_SellerOnly(o, u, msg, ca) ==
    IF o \notin DOMAIN offers THEN "NotFound"
    ELSE IF offers[o].listing_id \notin DOMAIN listings THEN "NotFound"
    ELSE IF u # listings[offers[o].listing_id].seller_id THEN "NotAParty"
    ELSE IF offers[o].status # "pending" THEN "NotNegotiable"
    ELSE IF ca # NoAmount /\ NonPositive(ca) THEN "InvalidAmount"
    ELSE IF NoteParts(msg, ca) = <<>> THEN "EmptyPost"
    ELSE IF ca # NoAmount /\ NumericOverflow(ca) THEN "StorageError"
    ELSE "ok"

\* variant: no check that the post carries something
PostNegotiationOutcome_NoEmptyCheck(o, u, msg, ca) ==
    IF o \notin DOMAIN offers THEN "NotFound"
    ELSE IF offers[o].listing_id \notin DOMAIN listings THEN "NotFound"
    ELSE IF u \notin {offers[o].buyer_id, listings[offers[o].listing_id].seller_id}
         THEN "NotAParty"
    ELSE IF offers[o].status # "pending" THEN "NotNegotiable"
    ELSE IF ca # NoAmount /\ NonPositive(ca) THEN "InvalidAmount"
    ELSE IF ca # NoAmount /\ NumericOverflow(ca) THEN "StorageError"
    ELSE "ok"

\* variant: no check that the offer is pending
PostNegotiationOutcome_NoStatusCheck(o, u, msg, ca) ==
    IF o \notin DOMAIN offers THEN "NotFound"
    ELSE IF offers[o].listing_id \notin DOMAIN listings THEN "NotFound"
    ELSE IF u \notin {offers[o].buyer_id, listings[offers[o].listing_id].seller_id}
         THEN "NotAParty"
    ELSE IF ca # NoAmount /\ NonPositive(ca) THEN "InvalidAmount"
    ELSE IF NoteParts(msg, ca) = <<>> THEN "EmptyPost"
    ELSE IF ca # NoAmount /\ NumericOverflow(ca) THEN "StorageError"
    ELSE "ok"

PostNegotiationOutcome(o, u, msg, ca) ==
    IF o \notin DOMAIN offers THEN "NotFound"
    ELSE IF offers[o].listing_id \notin DOMAIN listings THEN "NotFound"
    ELSE IF u \notin {offers[o].buyer_id, listings[offers[o].listing_id].seller_id}
         THEN "NotAParty"
    ELSE IF offers[o].status # "pending" THEN "NotNegotiable"
    ELSE IF ca # NoAmount /\ NonPositive(ca) THEN "InvalidAmount"
    ELSE IF NoteParts(msg, ca) = <<>> THEN "EmptyPost"
    ELSE IF ca # NoAmount /\ NumericOverflow(ca) THEN "StorageError"
    ELSE "ok"

PostNegotiation(o, u, msg, ca) ==
    LET r == PostNegotiationOutcome(o, u, msg, ca) IN
    /\ last' = Request("postMessage", u, o, r)
    /\ IF r = "ok"
       THEN /\ offers' = IF ca # NoAmount
                         THEN [offers EXCEPT ![o].amount = Quantize(ca)]
                         ELSE offers
            /\ negotiations' =
                 IF HasNegotiation(o)
                 THEN [negotiations EXCEPT ![o] = NegotiationRow("open", Join(NoteParts(msg, ca)))]
                 ELSE negotiations @@ (o :> NegotiationRow("open", Join(NoteParts(msg, ca))))
       ELSE UNCHANGED <<offers, negotiations>>
    /\ UNCHANGED <<listings, swaps, transactions, ack, event, intents, durable, requests>>

-----------------------------------------------------------------------------
(* create_swap, accept_swap, decline_swap (swaps.py).  The users table is  *)
(* not modelled: every caller and every listing owner has a row (foreign   *)
(* keys), so the two user lookups of _validate_swap_parties succeed.       *)
(* notes and channel_id take no part in any decision and are left out.     *)

\* variant: the recipient listing may be the proposer's own
ValidateSwapParties_NoSelfCheck(u, pl, rl) ==
    IF pl \notin DOMAIN listings THEN "NotFound"
    ELSE IF rl \notin DOMAIN listings THEN "NotFound"
    ELSE IF listings[pl].seller_id # u THEN "NotOwner"
    ELSE "ok"

\* _validate_swap_parties: the kind it raises, "ok" if none
ValidateSwapParties(u, pl, rl) ==
    IF pl \notin DOMAIN listings THEN "NotFound"
    ELSE IF rl \notin DOMAIN listings THEN "NotFound"
    ELSE IF listings[pl].seller_id # u THEN "NotOwner"
    ELSE IF listings[rl].seller_id = u THEN "SelfDealing"
    ELSE "ok"

\* uuid4 primary key: an id no row has
NewSwapId == CHOOSE i \in 1..(MaxSwaps + 1) : i \notin DOMAIN swaps

CreateSwap(u, pl, rl) ==
    LET r == ValidateSwapParties(u, pl, rl) IN
    /\ r = "ok" => Cardinality(DOMAIN swaps) <= MaxSwaps - 1
    /\ last' = Request("propose", u, IF r = "ok" THEN NewSwapId ELSE MissingSwap, r)
    /\ swaps' = IF r = "ok"
                THEN swaps @@ (NewSwapId :> SwapRow(rl, u, listings[rl].seller_id, "proposed"))
                ELSE swaps
    /\ UNCHANGED <<listings, offers, negotiations, transactions, ack, event, intents, durable, requests>>

\* variant: the initiator may decide too
EnsureCanDecideSwap_EitherParty(swap, u) ==
    IF u \notin {swap.counterparty_id, swap.initiator_id} THEN "NotCounterparty"
    ELSE IF swap.status # "proposed" THEN "NotDecidable"
    ELSE "ok"

\* variant: no check that the swap is proposed
EnsureCanDecideSwap_NoStatusCheck(swap, u) ==
    IF u # swap.counterparty_id THEN "NotCounterparty"
    ELSE "ok"

\* _ensure_can_decide_swap: the kind it raises, "ok" if none
EnsureCanDecideSwap(swap, u) ==
    IF u # swap.counterparty_id THEN "NotCounterparty"
    ELSE IF swap.status # "proposed" THEN "NotDecidable"
    ELSE "ok"

DecideSwapOutcome(s, u) ==
    IF s \notin DOMAIN swaps THEN "NotFound"
    ELSE EnsureCanDecideSwap(swaps[s], u)

\* variant: accepting hands the listing to the initiator
AcceptSwap_TransfersListing(s, u) ==
    LET r == DecideSwapOutcome(s, u) IN
    /\ last' = Request("swapAccept", u, s, r)
    /\ swaps' = IF r = "ok" THEN [swaps EXCEPT ![s].status = "accepted"] ELSE swaps
    /\ listings' = IF r = "ok"
                   THEN [listings EXCEPT ![swaps[s].listing_id].seller_id = swaps[s].initiator_id]
                   ELSE listings
    /\ UNCHANGED <<offers, negotiations, transactions, ack, event, intents, durable, requests>>

AcceptSwap(s, u) ==
    LET r == DecideSwapOutcome(s, u) IN
    /\ last' = Request("swapAccept", u, s, r)
    /\ swaps' = IF r = "ok" THEN [swaps EXCEPT ![s].status = "accepted"] ELSE swaps
    /\ UNCHANGED <<listings, offers, negotiations, transactions, ack, event, intents, durable, requests>>

DeclineSwap(s, u) ==
    LET r == DecideSwapOutcome(s, u) IN
    /\ last' = Request("swapDecline", u, s, r)
    /\ swaps' = IF r = "ok" THEN [swaps EXCEPT ![s].status = "rejected"] ELSE swaps
    /\ UNCHANGED <<listings, offers, negotiations, transactions, ack, event, intents, durable, requests>>

-----------------------------------------------------------------------------
(* checkout (transactions.py), create_payment_intent (services/            *)
(* payments.py).  The deployment is the one the settings default to: no    *)
(* STRIPE_SECRET_KEY, so create_payment_intent answers with its mock       *)
(* intent.  The request's own metadata is left empty.                      *)

TransactionIds == 1..MaxTransactions

\* listing_id: Optional[UUID] = None
NoListing == "None"

CheckoutBuyers == {"B"}

CheckoutAmounts == { Amt(0, 0, "0"), Amt(12, 990, "12.99") }

Currencies == {"USD", "usd"}

\* str.lower(), str.upper() on the currency codes of the model
Lower(c) == IF c = "USD" THEN "usd" ELSE c

Upper(c) == IF c = "usd" THEN "USD" ELSE c

\* int(Decimal(amount) * 100): truncation toward zero (amount > 0 here)
AmountCents(a) == a.u * 100 + (a.m \div 10)

\* the mock intent id: "pi_mock_<n>", n a hash of (amount_cents, currency,
\* metadata); metadata holds listing_id (when a listing is given) and
\* buyer_id.  The hash is written out as its arguments.
MockIntentId(cents, currency, listing, buyer) ==
    "pi_mock_" \o ToString(cents) \o "_" \o currency \o "_" \o listing \o "_" \o buyer

CheckoutOutcome(u, l, a) ==
    IF l # NoListing /\ l \notin DOMAIN listings THEN "ListingNotFound"
    ELSE IF NonPositive(a) THEN "InvalidAmount"
    ELSE IF NumericOverflow(a) THEN "StorageError"
    ELSE "ok"

\* uuid4 primary key: an id no row has
NewTransactionId == CHOOSE i \in 1..(MaxTransactions + 1) : i \notin DOMAIN transactions

Checkout(u, l, a, c) ==
    LET r == CheckoutOutcome(u, l, a) IN
    /\ r = "ok" => Cardinality(DOMAIN transactions) <= MaxTransactions - 1
    /\ last' = Request("initiateCheckout", u,
                       IF r = "ok" THEN NewTransactionId ELSE MissingTransaction, r)
    /\ transactions' =
         IF r = "ok"
         THEN transactions @@
                (NewTransactionId :>
                   TransactionRow(Quantize(a), Upper(c), "pending",
                                  MockIntentId(AmountCents(a), Lower(c), l, u), l, u))
         ELSE transactions
    /\ intents' = IF r \in {"ok", "StorageError"}
                  THEN intents \cup {MockIntentId(AmountCents(a), Lower(c), l, u)}
                  ELSE intents
    /\ UNCHANGED <<listings, offers, negotiations, swaps, ack, event, durable, requests>>

-----------------------------------------------------------------------------
(* payments_webhook, _map_stripe_event_to_status (webhooks.py).            *)

\* a key the event object does not have (dict.get gives None)
NoId == "None"

\* no mapped status (None)
NoStatus == "None"

\* {"type": ..., "data": {"object": null}}
NullObjectEvent ==
    [type |-> "payment_intent.succeeded", id |-> NoId, payment_intent |-> NoId,
     object |-> "null"]

\* event types whose object is a payment intent
IntentEventTypes ==
    { "payment_intent.succeeded", "payment_intent.payment_failed",
      "payment_intent.created" }

\* event types whose object is a charge (or a refund of one)
ChargeEventTypes == { "charge.failed", "charge.refunded", "charge.refund.updated" }

\* the intent ids events name: the one checkout stores for a purchase of
\* listing L1, and one nobody has
IntentIds ==
    { MockIntentId(AmountCents(a), "usd", "L1", u) :
        a \in CheckoutAmounts \ {Amt(0, 0, "0")}, u \in CheckoutBuyers }
      \cup {"pi_unknown"}

\* the id of a charge object
ChargeIds == {"ch_1"}

\* the events delivered: a payment intent event carries the intent as its
\* object (the object's id is the intent id); a charge event carries the
\* charge (its own id, and the intent it belongs to if any) or, in the
\* simplified form of a test sender, just the intent id as the object's id;
\* either may lack the id
Events ==
    { Event(t, i, NoId) : t \in IntentEventTypes \cup ChargeEventTypes,
                          i \in IntentIds \cup {NoId} }
      \cup { Event(t, c, i) : t \in ChargeEventTypes, c \in ChargeIds \cup {NoId},
                               i \in IntentIds }
      \cup { Event(t, c, NoId) : t \in ChargeEventTypes, c \in ChargeIds }
      \cup { NullObjectEvent }

\* intent_id = obj.get("id") or obj.get("payment_intent")
IntentIdOf(e) == IF e.id # NoId THEN e.id ELSE e.payment_intent

\* mapped_status
MappedStatusOf(e) ==
    IF e.type \in {"payment_intent.succeeded"} THEN "succeeded"
    ELSE IF e.type \in {"payment_intent.payment_failed", "charge.failed"} THEN "failed"
    ELSE IF e.type \in {"charge.refunded", "charge.refund.updated"} THEN "refunded"
    ELSE NoStatus

\* STRIPE_WEBHOOK_SECRET: not set (the default), or set
WebhookSecrets == {"None", "whsec"}

\* the Stripe-Signature header: absent, the signature of the payload, or not
Signatures == {"None", "valid", "invalid"}

\* verify_webhook, provider "stripe": its first component.  The event it
\* answers with is the payload parsed, whether construct_event accepted the
\* signature or not.
VerifyWebhook(secret, signature) == secret # "None" /\ signature = "valid"

VerificationOutcomes ==
    { VerifyWebhook(secret, signature) : secret \in WebhookSecrets, signature \in Signatures }

\* variant: a lookup that finds no row falls back to any row
LookupTransaction_AnyRow(pi) ==
    IF \E t \in DOMAIN transactions : transactions[t].provider_payment_intent_id = pi
    THEN { t \in DOMAIN transactions : transactions[t].provider_payment_intent_id = pi }
    ELSE DOMAIN transactions

\* select(Transaction).where(provider_payment_intent_id == pi_id): the rows
\* db.scalar can answer with (the first row of an unordered result)
LookupTransaction(pi) ==
    { t \in DOMAIN transactions : transactions[t].provider_payment_intent_id = pi }

\* variant: an event whose signature was not verified is acknowledged but
\* not applied
PaymentsWebhook_VerifiedOnly(e, verified) ==
    IF e.object # "mapping"
    THEN /\ last' = Request("applyProviderEvent", "provider", MissingTransaction, "ServerError")
         /\ ack' = NoAck
         /\ event' = e
         /\ UNCHANGED <<listings, offers, negotiations, swaps, transactions, intents,
                         durable, requests>>
    ELSE
    LET pi == IntentIdOf(e)
        st == MappedStatusOf(e)
    IN
    /\ IF pi = NoId \/ ~verified
       THEN /\ ack' = WebhookAck(TRUE, verified, "None", MissingTransaction)
            /\ UNCHANGED transactions
       ELSE IF LookupTransaction(pi) = {}
       THEN /\ ack' = WebhookAck(TRUE, verified, "transaction_not_found", MissingTransaction)
            /\ UNCHANGED transactions
       ELSE \E t \in LookupTransaction(pi) :
              IF st # NoStatus
              THEN /\ transactions' = [transactions EXCEPT ![t].status = st]
                   /\ ack' = WebhookAck(TRUE, verified, "set_status_" \o st, t)
              ELSE /\ ack' = WebhookAck(TRUE, verified, "no_status_change", t)
                   /\ UNCHANGED transactions
    /\ last' = Request("applyProviderEvent", "provider", ack'.transaction_id, ack'.action)
    /\ event' = e
    /\ UNCHANGED <<listings, offers, negotiations, swaps, intents, durable, requests>>

PaymentsWebhook(e, verified) ==
    IF e.object # "mapping"
    THEN /\ last' = Request("applyProviderEvent", "provider", MissingTransaction, "ServerError")
         /\ ack' = NoAck
         /\ event' = e
         /\ UNCHANGED <<listings, offers, negotiations, swaps, transactions, intents,
                         durable, requests>>
    ELSE
    LET pi == IntentIdOf(e)
        st == MappedStatusOf(e)
    IN
    /\ IF pi = NoId
       THEN /\ ack' = WebhookAck(TRUE, verified, "None", MissingTransaction)
            /\ UNCHANGED transactions
       ELSE IF LookupTransaction(pi) = {}
       THEN /\ ack' = WebhookAck(TRUE, verified, "transaction_not_found", MissingTransaction)
            /\ UNCHANGED transactions
       ELSE \E t \in LookupTransaction(pi) :
              IF st # NoStatus
              THEN /\ transactions' = [transactions EXCEPT ![t].status = st]
                   /\ ack' = WebhookAck(TRUE, verified, "set_status_" \o st, t)
              ELSE /\ ack' = WebhookAck(TRUE, verified, "no_status_change", t)
                   /\ UNCHANGED transactions
    /\ last' = Request("applyProviderEvent", "provider", ack'.transaction_id, ack'.action)
    /\ event' = e
    /\ UNCHANGED <<listings, offers, negotiations, swaps, intents, durable, requests>>

-----------------------------------------------------------------------------
(* update_listing, delete_listing (listings.py).  A listing row is its     *)
(* seller_id and status; the patch of the other fields (title, price, ...) *)
(* is a patch that leaves the status unset.                                *)

\* status: Optional[ListingStatus] = None, left out of the patch
Unset == "unset"

\* "status": null in the patch
Null == "null"

StatusPatches == ListingStatus \cup {Unset, Null}

\* the listing a request names, as last records it (a number, as the ids of
\* the other tables)
ListingKey(l) == IF l = "L1" THEN 1 ELSE IF l = "L2" THEN 2 ELSE 0

\* the kind update_listing raises, "ok" if none; a null status reaches the
\* NOT NULL column at flush
UpdateListingOutcome(l, u, st) ==
    IF l \notin DOMAIN listings THEN "NotFound"
    ELSE IF listings[l].seller_id # u THEN "NotOwner"
    ELSE IF st = Null THEN "StorageError"
    ELSE "ok"

UpdateListing(l, u, st) ==
    LET r == UpdateListingOutcome(l, u, st) IN
    /\ last' = Request("updateListing", u, ListingKey(l), r)
    /\ listings' = IF r = "ok" /\ st # Unset
                   THEN [listings EXCEPT ![l].status = st]
                   ELSE listings
    /\ UNCHANGED <<offers, negotiations, swaps, transactions, ack, event, intents,
                   durable, requests>>

\* variant: no ownership check
DeleteListingOutcome_AnyUser(l, u) ==
    IF l \notin DOMAIN listings THEN "NotFound"
    ELSE "ok"

DeleteListingOutcome(l, u) ==
    IF l \notin DOMAIN listings THEN "NotFound"
    ELSE IF listings[l].seller_id # u THEN "NotOwner"
    ELSE "ok"

\* the rows of table whose key is in keep
Restrict(table, keep) == [k \in DOMAIN table \cap keep |-> table[k]]

\* Listing.offers, Listing.swaps: the rows that reference listing l
OffersOf(l) == { o \in DOMAIN offers : offers[o].listing_id = l }

SwapsOf(l) == { s \in DOMAIN swaps : swaps[s].listing_id = l }

\* variant: negotiations are left behind when their offer is deleted
NegotiationsOf_NoCascade(l) == {}

\* Listing.negotiations and the negotiation of each offer of the listing
\* (a negotiation carries the listing_id of its offer)
NegotiationsOf(l) == { o \in DOMAIN negotiations : o \in OffersOf(l) }

\* variant: the purchases of a deleted listing are marked failed
SeverTransactions_MarksFailed(l) ==
    [t \in DOMAIN transactions |->
       IF transactions[t].listing_id = l
       THEN [transactions[t] EXCEPT !.listing_id = NoListing, !.status = "failed"]
       ELSE transactions[t]]

\* Listing.transactions has no delete cascade: the unit of work sets the
\* foreign key of each row to NULL
SeverTransactions(l) ==
    [t \in DOMAIN transactions |->
       IF transactions[t].listing_id = l
       THEN [transactions[t] EXCEPT !.listing_id = NoListing]
       ELSE transactions[t]]

DeleteListing(l, u) ==
    LET r == DeleteListingOutcome(l, u) IN
    /\ last' = Request("deleteListing", u, ListingKey(l), r)
    /\ IF r = "ok"
       THEN /\ listings' = Restrict(listings, DOMAIN listings \ {l})
            /\ offers' = Restrict(offers, DOMAIN offers \ OffersOf(l))
            /\ negotiations' = Restrict(negotiations, DOMAIN negotiations \ NegotiationsOf(l))
            /\ swaps' = Restrict(swaps, DOMAIN swaps \ SwapsOf(l))
            /\ transactions' = SeverTransactions(l)
       ELSE UNCHANGED <<listings, offers, negotiations, swaps, transactions>>
    /\ UNCHANGED <<ack, event, intents, durable, requests>>

-----------------------------------------------------------------------------

\* Offer ids range over OfferIds: an id beyond the rows the tables hold is
\* the unknown id (404).
Next ==
    \/ \E l \in ListingIds \cup {MissingListing}, u \in Users, a \in DecimalAmounts :
         CreateOffer(l, u, a)
    \/ \E o \in OfferIds, u \in Users, a \in DecimalAmounts : CounterOffer(o, u, a)
    \/ \E o \in OfferIds, u \in Users : AcceptOffer(o, u)
    \/ \E o \in OfferIds, u \in Users : DeclineOffer(o, u)
    \/ \E o \in OfferIds, u \in Users, msg \in Messages, ca \in FloatAmounts \cup {NoAmount} :
         PostNegotiation(o, u, msg, ca)

Spec == Init /\ [][Next]_vars

TypeOK ==
    /\ \A l \in DOMAIN listings : listings[l].status \in ListingStatus
    /\ \A o \in DOMAIN offers : offers[o].status \in OfferStatus
    /\ \A o \in DOMAIN negotiations :
         o \in DOMAIN offers /\ negotiations[o].status \in NegotiationStatus

-----------------------------------------------------------------------------
(* The swap engine on its own: two listings of two owners, no swap yet.    *)

\* the listings table of the specifications with swaps
MarketListings ==
    { f \in [MarketListingIds -> { [seller_id |-> u, status |-> st] :
                                     u \in Users, st \in ListingStatus }] :
        \A l \in MarketListingIds : f[l].seller_id = MarketSellerOf[l] }

InitSwap ==
    /\ listings \in MarketListings
    /\ offers = NoRows
    /\ negotiations = NoRows
    /\ swaps = NoRows
    /\ transactions = NoRows
    /\ ack = NoAck
    /\ event = NoEvent
    /\ intents = {}
    /\ durable = NoSnapshot
    /\ requests = NoRequests
    /\ last = Request("none", "S", MissingSwap, "ok")

NextSwap ==
    \/ \E u \in Users, pl \in MarketListingIds \cup {MissingListing},
          rl \in MarketListingIds \cup {MissingListing} : CreateSwap(u, pl, rl)
    \/ \E s \in SwapIds, u \in Users : AcceptSwap(s, u)
    \/ \E s \in SwapIds, u \in Users : DeclineSwap(s, u)

SpecSwap == InitSwap /\ [][NextSwap]_vars

-----------------------------------------------------------------------------
(* Offers, negotiations and swaps together: the two listings, both active, *)
(* one pending offer of B on L1 with its negotiation, no swap yet.         *)

InitMarket ==
    /\ listings = [l \in MarketListingIds |->
                     [seller_id |-> MarketSellerOf[l], status |-> "active"]]
    /\ offers = (1 :> OfferRow(InitialAmount, "L1", "B", "pending"))
    /\ negotiations \in [{1} -> InitialNegotiations("pending")]
    /\ swaps = NoRows
    /\ transactions = NoRows
    /\ ack = NoAck
    /\ event = NoEvent
    /\ intents = {}
    /\ durable = NoSnapshot
    /\ requests = NoRequests
    /\ last = Request("none", "S", MissingOffer, "ok")

NextMarket ==
    \/ \E l \in MarketListingIds \cup {MissingListing}, u \in Users, a \in DecimalAmounts :
         CreateOffer(l, u, a)
    \/ \E o \in OfferIds, u \in Users, a \in DecimalAmounts : CounterOffer(o, u, a)
    \/ \E o \in OfferIds, u \in Users : AcceptOffer(o, u)
    \/ \E o \in OfferIds, u \in Users : DeclineOffer(o, u)
    \/ \E o \in OfferIds, u \in Users, msg \in Messages, ca \in FloatAmounts \cup {NoAmount} :
         PostNegotiation(o, u, msg, ca)
    \/ \E u \in Users, pl \in MarketListingIds \cup {MissingListing},
          rl \in MarketListingIds \cup {MissingListing} : CreateSwap(u, pl, rl)
    \/ \E s \in SwapIds, u \in Users : AcceptSwap(s, u)
    \/ \E s \in SwapIds, u \in Users : DeclineSwap(s, u)

SpecMarket == InitMarket /\ [][NextMarket]_vars

-----------------------------------------------------------------------------
(* The transaction ledger on its own: listing L1, no transaction yet.      *)

InitLedger ==
    /\ listings = [l \in ListingIds |-> [seller_id |-> SellerOf[l], status |-> "active"]]
    /\ offers = NoRows
    /\ negotiations = NoRows
    /\ swaps = NoRows
    /\ transactions = NoRows
    /\ ack = NoAck
    /\ event = NoEvent
    /\ intents = {}
    /\ durable = NoSnapshot
    /\ requests = NoRequests
    /\ last = Request("none", "provider", MissingTransaction, "ok")

NextLedger ==
    \/ \E u \in CheckoutBuyers, l \in ListingIds \cup {NoListing, MissingListing},
          a \in CheckoutAmounts, c \in Currencies : Checkout(u, l, a, c)
    \/ \E e \in Events, verified \in BOOLEAN : PaymentsWebhook(e, verified)

SpecLedger == InitLedger /\ [][NextLedger]_vars

-----------------------------------------------------------------------------
(* Checkout on its own, with amounts of every kind: not positive, below    *)
(* one minor unit, with two and with three decimals.                       *)

MinorUnitAmounts ==
    { Amt(0 - 5, 0, "-5"), Amt(0, 0, "0"), Amt(0, 5, "0.005"), Amt(12, 990, "12.99"),
      Amt(12, 999, "12.999") }

NextCheckout ==
    \E u \in CheckoutBuyers, l \in ListingIds \cup {NoListing, MissingListing},
       a \in MinorUnitAmounts, c \in Currencies : Checkout(u, l, a, c)

SpecCheckout == InitLedger /\ [][NextCheckout]_vars

-----------------------------------------------------------------------------
(* The webhook endpoint under each configuration of the signature check,   *)
(* on a ledger of purchases of L1 by B.                                    *)

NextWebhook ==
    \/ \E a \in {Amt(12, 990, "12.99")} : Checkout("B", "L1", a, "USD")
    \/ \E e \in Events, verified \in VerificationOutcomes : PaymentsWebhook(e, verified)

SpecWebhook == InitLedger /\ [][NextWebhook]_vars

-----------------------------------------------------------------------------
(* Every operation together, around listing L1 of S: B's pending offer on  *)
(* it, B's swap proposals of L2 against it, B's purchases of it, and the   *)
(* owner's updates and deletion of it.  Each operation is issued with a    *)
(* few representative requests.                                            *)

\* the purchase of L1 by B
PlatformIntent == MockIntentId(1299, "usd", "L1", "B")

\* the events the provider sends about that purchase
PlatformEvents ==
    { Event("payment_intent.succeeded", PlatformIntent, NoId),
      Event("charge.refunded", PlatformIntent, NoId) }

InitPlatform ==
    /\ listings = [l \in MarketListingIds |->
                     [seller_id |-> MarketSellerOf[l], status |-> "active"]]
    /\ offers = (1 :> OfferRow(InitialAmount, "L1", "B", "pending"))
    /\ negotiations \in [{1} -> InitialNegotiations("pending")]
    /\ swaps = NoRows
    /\ transactions = NoRows
    /\ ack = NoAck
    /\ event = NoEvent
    /\ intents = {}
    /\ durable = NoSnapshot
    /\ requests = NoRequests
    /\ last = Request("none", "S", MissingOffer, "ok")

NextPlatform ==
    \/ \E u \in {"B"}, a \in {Amt(90, 0, "90.00")} : CreateOffer("L1", u, a)
    \/ \E o \in OfferIds, a \in {Amt(90, 0, "90.00")} : CounterOffer(o, "S", a)
    \/ \E o \in OfferIds : AcceptOffer(o, "B")
    \/ \E o \in OfferIds : DeclineOffer(o, "S")
    \/ \E o \in OfferIds : PostNegotiation(o, "T", Text(1, "hi", 1), NoAmount)
    \/ \E u \in {"B", "S"} : CreateSwap(u, "L2", "L1")
    \/ \E s \in SwapIds : AcceptSwap(s, "S")
    \/ \E s \in SwapIds : DeclineSwap(s, "B")
    \/ \E u \in {"S", "B"}, st \in StatusPatches : UpdateListing("L1", u, st)
    \/ \E u \in {"S", "B"} : DeleteListing("L1", u)
    \/ /\ Cardinality(DOMAIN transactions) <= MaxPurchases - 1
       /\ \E a \in {Amt(12, 990, "12.99")} : Checkout("B", "L1", a, "USD")
    \/ \E e \in PlatformEvents : PaymentsWebhook(e, FALSE)

SpecPlatform == InitPlatform /\ [][NextPlatform]_vars

-----------------------------------------------------------------------------
(* get_db (core/database.py), db_session (deps.py): the session every      *)
(* handler is given.  The handler runs on a session of its own and answers *)
(* from what that session holds after its flush; get_db then closes the    *)
(* session and does nothing else.  No handler calls commit (session_scope, *)
(* which does, serves manage.py alone), so closing discards what the       *)
(* handler wrote, and the session of the next request reads the committed  *)
(* rows again.  The variable durable holds the committed rows.             *)

\* the rows of every table
Rows ==
    [listings |-> listings, offers |-> offers, negotiations |-> negotiations,
     swaps |-> swaps, transactions |-> transactions]

Outcomes ==
    { "ok", "NotFound", "SelfDealing", "ListingNotActive", "InvalidAmount", "StorageError",
      "NotAParty", "NotModifiable", "NotNegotiable", "EmptyPost", "NotOwner" }

\* the answers a handler can give to the request op of user u
Answers(op, u) == { Request(op, u, i, r) : i \in 0..(MaxOffers + 1), r \in Outcomes }

\* Session.close() of a session that was not committed: its pending writes
\* are rolled back
Close ==
    /\ listings' = durable.listings
    /\ offers' = durable.offers
    /\ negotiations' = durable.negotiations
    /\ swaps' = durable.swaps
    /\ transactions' = durable.transactions

\* the request as the application serves it: yield db (the handler runs and
\* answers), finally db.close()
GetDb(op, u, handler) ==
    /\ \E r \in Answers(op, u) : ENABLED (handler /\ last' = r) /\ last' = r
    /\ Close
    /\ UNCHANGED <<ack, event, intents, durable, requests>>

SessionAmounts == { Amt(0, 0, "0"), Amt(90, 0, "90.00"), Amt(100000000, 0, "100000000.00") }

InitSession ==
    /\ listings \in [ListingIds -> { [seller_id |-> SellerOf[l], status |-> st] :
                                       l \in ListingIds, st \in {"active", "sold"} }]
    /\ \E n \in 0..MaxOffers :
         /\ offers \in [1..n -> { OfferRow(InitialAmount, l, "B", st) :
                                    l \in ListingIds, st \in OfferStatus }]
         /\ negotiations \in { f \in [1..n -> UNION { InitialNegotiations(st) : st \in OfferStatus }] :
                                 \A o \in 1..n : f[o] \in InitialNegotiations(offers[o].status) }
    /\ swaps = NoRows
    /\ transactions = NoRows
    /\ ack = NoAck
    /\ event = NoEvent
    /\ intents = {}
    /\ durable = Rows
    /\ requests = NoRequests
    /\ last = Request("none", "S", MissingOffer, "ok")

NextSession ==
    \/ \E l \in ListingIds \cup {MissingListing}, u \in Users, a \in SessionAmounts :
         GetDb("createOffer", u, CreateOffer(l, u, a))
    \/ \E o \in OfferIds, u \in Users, a \in SessionAmounts :
         GetDb("counter", u, CounterOffer(o, u, a))
    \/ \E o \in OfferIds, u \in Users : GetDb("accept", u, AcceptOffer(o, u))
    \/ \E o \in OfferIds, u \in Users : GetDb("decline", u, DeclineOffer(o, u))
    \/ \E o \in OfferIds, u \in Users :
         GetDb("postMessage", u, PostNegotiation(o, u, Text(1, "hi", 1), NoAmount))
    \/ \E l \in ListingIds, u \in Users, st \in StatusPatches :
         GetDb("updateListing", u, UpdateListing(l, u, st))
    \/ \E l \in ListingIds, u \in Users : GetDb("deleteListing", u, DeleteListing(l, u))

SpecSession == InitSession /\ [][NextSession]_vars

-----------------------------------------------------------------------------
(* _auth_user (offers.py, and its copies in the other routers),            *)
(* refresh_tokens (auth.py), create_access_token, create_refresh_token,    *)
(* decode_token (core/security.py).  A token is what its JWT carries and   *)
(* what decode_token finds out about it: subject, type claim, whether the  *)
(* signature is the application's and whether exp has passed.              *)

Token(sub, type, signature, expired) ==
    [sub |-> sub, type |-> type, signature |-> signature, expired |-> expired]

\* create_access_token, create_refresh_token for a user id
AccessToken(u) == Token(u, "access", "good", FALSE)

RefreshToken(u) == Token(u, "refresh", "good", FALSE)

Tokens ==
    { AccessToken(u) : u \in {"S", "B"} } \cup { RefreshToken(u) : u \in {"S", "B"} }
      \cup { Token("S", "access", "forged", FALSE), Token("S", "access", "good", TRUE),
             Token("S", "refresh", "good", TRUE) }

\* the Authorization header: absent, or "<scheme> <token>"
NoScheme == "None"

Credential(scheme, token) == [scheme |-> scheme, token |-> token]

Credentials ==
    { Credential(NoScheme, AccessToken("S")), Credential("Basic", AccessToken("S")),
      Credential("bearer", AccessToken("B")) }
      \cup { Credential("Bearer", t) : t \in Tokens }

\* authorization.lower().startswith("bearer ")
IsBearer(cred) == cred.scheme \in {"Bearer", "bearer"}

\* decode_token returns the payload (jwt.decode checks signature and exp)
Decodes(t) == t.signature = "good" /\ ~t.expired

\* the caller of a request that was refused before a user was resolved
Anonymous == "anonymous"

AuthFailures == {"Unauthenticated", "InvalidToken", "WrongTokenKind"}

\* variant: the type claim is not looked at
AuthUser_AnyTokenKind(cred) ==
    IF ~IsBearer(cred) THEN "Unauthenticated"
    ELSE IF ~Decodes(cred.token) THEN "InvalidToken"
    ELSE "ok"

\* _auth_user: 401 "Not authenticated", "Invalid or expired token",
\* "Invalid token type"
AuthUser(cred) ==
    IF ~IsBearer(cred) THEN "Unauthenticated"
    ELSE IF ~Decodes(cred.token) THEN "InvalidToken"
    ELSE IF cred.token.type # "access" THEN "WrongTokenKind"
    ELSE "ok"

\* a handler behind Depends(_auth_user): the dependency is resolved before
\* the handler body runs; handler is the body run for the token's subject
Protected(cred, op, handler) ==
    IF AuthUser(cred) = "ok"
    THEN handler
    ELSE /\ last' = Request(op, Anonymous, MissingOffer, AuthUser(cred))
         /\ UNCHANGED <<listings, offers, negotiations, swaps, transactions,
                        ack, event, intents, durable, requests>>

RefreshTokensOutcome(t) ==
    IF ~Decodes(t) THEN "InvalidToken"
    ELSE IF t.type # "refresh" THEN "WrongTokenKind"
    ELSE "ok"

\* refresh_tokens: the new pair is made from the subject alone and nothing
\* is stored
RefreshTokens(t) ==
    LET r == RefreshTokensOutcome(t) IN
    /\ last' = Request("refresh", IF r = "ok" THEN t.sub ELSE Anonymous, MissingOffer, r)
    /\ UNCHANGED <<listings, offers, negotiations, swaps, transactions,
                   ack, event, intents, durable, requests>>

\* the protected operations, each called with credential cred
ProtectedStep(cred) ==
    \/ \E o \in OfferIds : Protected(cred, "accept", AcceptOffer(o, cred.token.sub))
    \/ \E o \in OfferIds : Protected(cred, "decline", DeclineOffer(o, cred.token.sub))
    \/ \E st \in {"sold", Unset} :
         Protected(cred, "updateListing", UpdateListing("L1", cred.token.sub, st))
    \/ Protected(cred, "deleteListing", DeleteListing("L1", cred.token.sub))
    \/ /\ Cardinality(DOMAIN transactions) <= MaxPurchases - 1
       /\ \E a \in {Amt(12, 990, "12.99")} :
            Protected(cred, "initiateCheckout", Checkout(cred.token.sub, "L1", a, "USD"))

NextGate ==
    \/ \E cred \in Credentials : ProtectedStep(cred)
    \/ \E t \in Tokens : RefreshTokens(t)

SpecGate == InitPlatform /\ [][NextGate]_vars

-----------------------------------------------------------------------------
(* counter_offer and accept_offer (offers.py) served at the same time on   *)
(* offer 1, each in a session of its own: db.get reads the row, the guards *)
(* are checked on the object as read, and the flush updates the columns    *)
(* the handler assigned.  Neither the model Offer nor the handlers carry a *)
(* version column or a SELECT ... FOR UPDATE.  requests holds, for each of *)
(* the two handlers, where it is and the object it works on.               *)

RacedOffer == 1

Racers == {"counter", "accept"}

\* a handler's position: pc, the caller, the amount of the payload, the
\* Offer object of its session and the outcome it answered with
Serving(pc, user, amount, offer, result) ==
    [pc |-> pc, user |-> user, amount |-> amount, offer |-> offer, result |-> result]

NoOfferLoaded == OfferRow(Stored(0, 0), "None", "None", "None")

Idle == Serving("idle", "None", NoAmount, NoOfferLoaded, "None")

RaceAmounts == { Amt(0, 0, "0"), Amt(70, 0, "70.00"), Amt(90, 0, "90.00") }

\* offer = db.get(Offer, id): a request arrives and loads the row
LoadOffer(r, u, a) ==
    /\ requests[r].pc \in {"idle", "done"}
    /\ requests' = [requests EXCEPT ![r] = Serving("loaded", u, a, offers[RacedOffer], "None")]
    /\ UNCHANGED <<listings, offers, negotiations, swaps, transactions, ack, event,
                   intents, durable, last>>

\* the guards of counter_offer on the object as loaded
CounterGuards(offer, u, a) ==
    IF EnsureCanModifyOfferAsSeller(offer, u) # "ok"
    THEN EnsureCanModifyOfferAsSeller(offer, u)
    ELSE IF NonPositive(a) THEN "InvalidAmount"
    ELSE "ok"

\* the guards of accept_offer on the object as loaded
AcceptGuards(offer, u) ==
    IF offer.listing_id \notin DOMAIN listings THEN "NotFound"
    ELSE IF u \notin {offer.buyer_id, listings[offer.listing_id].seller_id} THEN "NotAParty"
    ELSE IF offer.status # "pending" THEN "NotModifiable"
    ELSE "ok"

GuardsOf(r) ==
    IF r = "counter"
    THEN CounterGuards(requests[r].offer, requests[r].user, requests[r].amount)
    ELSE AcceptGuards(requests[r].offer, requests[r].user)

\* the checks between db.get and the first assignment
CheckGuards(r) ==
    /\ requests[r].pc = "loaded"
    /\ IF GuardsOf(r) = "ok"
       THEN /\ requests' = [requests EXCEPT ![r].pc = "checked"]
            /\ UNCHANGED last
       ELSE /\ requests' = [requests EXCEPT ![r].pc = "done", ![r].result = GuardsOf(r)]
            /\ last' = Request(r, requests[r].user, RacedOffer, GuardsOf(r))
    /\ UNCHANGED <<listings, offers, negotiations, swaps, transactions, ack, event,
                   intents, durable>>

\* variant: the flush writes every column of the object as it was loaded
FlushStatus_WholeRow(o, loaded, status) ==
    [offers EXCEPT ![o] = [loaded EXCEPT !.status = status]]

\* db.flush() after offer.status = ...: UPDATE offers SET status = ...
\* WHERE id = ...; only the attribute the handler assigned is written
FlushStatus(o, loaded, status) == [offers EXCEPT ![o].status = status]

\* db.flush() after offer.amount = ...: UPDATE offers SET amount = ...; an
\* attribute assigned the value it was loaded with has no net change and is
\* left out of the UPDATE
FlushAmount(o, loaded, amount) ==
    IF amount = loaded.amount THEN offers ELSE [offers EXCEPT ![o].amount = amount]

\* counter_offer from the assignment to the answer
WriteCounter ==
    /\ requests["counter"].pc = "checked"
    /\ offers' = FlushAmount(RacedOffer, requests["counter"].offer,
                             Quantize(requests["counter"].amount))
    /\ negotiations' =
         IF HasNegotiation(RacedOffer)
         THEN [negotiations EXCEPT ![RacedOffer].last_message =
                 "Seller countered to " \o requests["counter"].amount.s]
         ELSE negotiations @@
                (RacedOffer :> NegotiationRow("open", "Seller countered to "
                                                       \o requests["counter"].amount.s))
    /\ requests' = [requests EXCEPT !["counter"].pc = "done", !["counter"].result = "ok"]
    /\ last' = Request("counter", requests["counter"].user, RacedOffer, "ok")
    /\ UNCHANGED <<listings, swaps, transactions, ack, event, intents, durable>>

\* accept_offer from the assignment to the answer
WriteAccept ==
    /\ requests["accept"].pc = "checked"
    /\ offers' = FlushStatus(RacedOffer, requests["accept"].offer, "accepted")
    /\ negotiations' = CloseNegotiation(RacedOffer, "Offer accepted")
    /\ requests' = [requests EXCEPT !["accept"].pc = "done", !["accept"].result = "ok"]
    /\ last' = Request("accept", requests["accept"].user, RacedOffer, "ok")
    /\ UNCHANGED <<listings, swaps, transactions, ack, event, intents, durable>>

InitRace ==
    /\ listings = [l \in ListingIds |-> [seller_id |-> SellerOf[l], status |-> "active"]]
    /\ offers = (RacedOffer :> OfferRow(InitialAmount, "L1", "B", "pending"))
    /\ negotiations \in [{RacedOffer} -> InitialNegotiations("pending")]
    /\ swaps = NoRows
    /\ transactions = NoRows
    /\ ack = NoAck
    /\ event = NoEvent
    /\ intents = {}
    /\ durable = NoSnapshot
    /\ requests = [r \in Racers |-> Idle]
    /\ last = Request("none", "S", MissingOffer, "ok")

NextRace ==
    \/ \E u \in Users, a \in RaceAmounts : LoadOffer("counter", u, a)
    \/ \E u \in Users : LoadOffer("accept", u, NoAmount)
    \/ \E r \in Racers : CheckGuards(r)
    \/ WriteCounter
    \/ WriteAccept

SpecRace == InitRace /\ [][NextRace]_vars

-----------------------------------------------------------------------------
(* Any two of counter_offer, accept_offer, decline_offer (offers.py) and   *)
(* post_negotiation_for_offer (negotiations.py) served at the same time on *)
(* offer 1.  Each handler loads the offer, checks its guards on the object *)
(* as loaded and, from its first assignment on, is taken in one step:      *)
(* offer.negotiation is loaded lazily there, the flush updates the         *)
(* attributes whose value differs from the one loaded, and the answer is   *)
(* given.  requests holds the two handlers under way.                      *)

Slots == {1, 2}

\* a request: the operation, the caller and the payload
Call(op, user, amount, message) ==
    [op |-> op, user |-> user, amount |-> amount, message |-> message]

NoCall == Call("None", "None", NoAmount, NoMessage)

\* the requests sent: the seller's counters (one of them to the amount the
\* offer has), the buyer's accept, the seller's decline, the buyer's post
\* of a message and of a counter
Calls ==
    { Call("counter", "S", Amt(80, 0, "80.00"), NoMessage),
      Call("counter", "S", Amt(90, 0, "90.00"), NoMessage),
      Call("accept", "B", NoAmount, NoMessage),
      Call("decline", "S", NoAmount, NoMessage),
      Call("postMessage", "B", NoAmount, Text(1, "hi", 1)),
      Call("postMessage", "B", Amt(70, 0, "70.0"), NoMessage) }

\* a handler's position: pc, its request, the Offer object of its session
\* as loaded and the outcome it answered with
Handling(pc, call, offer, result) ==
    [pc |-> pc, call |-> call, offer |-> offer, result |-> result]

Waiting == Handling("idle", NoCall, NoOfferLoaded, "None")

\* offer = db.get(Offer, id) / _get_offer_and_listing
Load(s, call) ==
    /\ requests[s].pc \in {"idle", "done"}
    /\ requests' = [requests EXCEPT ![s] = Handling("loaded", call, offers[RacedOffer], "None")]
    /\ UNCHANGED <<listings, offers, negotiations, swaps, transactions, ack, event,
                   intents, durable, last>>

\* the guards of post_negotiation_for_offer on the object as loaded
PostGuards(offer, u, msg, ca) ==
    IF offer.listing_id \notin DOMAIN listings THEN "NotFound"
    ELSE IF u \notin {offer.buyer_id, listings[offer.listing_id].seller_id} THEN "NotAParty"
    ELSE IF offer.status # "pending" THEN "NotNegotiable"
    ELSE IF ca # NoAmount /\ NonPositive(ca) THEN "InvalidAmount"
    ELSE IF NoteParts(msg, ca) = <<>> THEN "EmptyPost"
    ELSE "ok"

Guards(call, offer) ==
    IF call.op = "counter" THEN CounterGuards(offer, call.user, call.amount)
    ELSE IF call.op = "postMessage"
         THEN PostGuards(offer, call.user, call.message, call.amount)
    ELSE AcceptGuards(offer, call.user)

Check(s) ==
    LET g == Guards(requests[s].call, requests[s].offer) IN
    /\ requests[s].pc = "loaded"
    /\ IF g = "ok"
       THEN /\ requests' = [requests EXCEPT ![s].pc = "checked"]
            /\ UNCHANGED last
       ELSE /\ requests' = [requests EXCEPT ![s].pc = "done", ![s].result = g]
            /\ last' = Request(requests[s].call.op, requests[s].call.user, RacedOffer, g)
    /\ UNCHANGED <<listings, offers, negotiations, swaps, transactions, ack, event,
                   intents, durable>>

\* `value == loaded value` of a payload amount and the Numeric loaded
EqualsLoaded(a, q) == a.u = q.u /\ a.m = q.m

\* the Offer object after the handler's assignments
Assigned(call, loaded) ==
    IF call.op = "accept" THEN [loaded EXCEPT !.status = "accepted"]
    ELSE IF call.op = "decline" THEN [loaded EXCEPT !.status = "rejected"]
    ELSE IF call.amount # NoAmount /\ ~EqualsLoaded(call.amount, loaded.amount)
         THEN [loaded EXCEPT !.amount = Quantize(call.amount)]
    ELSE loaded

\* variant: the UPDATE carries every column of the object
FlushOffer_WholeRow(o, loaded, obj) == [offers EXCEPT ![o] = obj]

\* db.flush(): UPDATE offers SET <the attributes with a net change>
\* WHERE id = ...
FlushOffer(o, loaded, obj) ==
    [offers EXCEPT ![o].amount = IF obj.amount # loaded.amount THEN obj.amount ELSE @,
                   ![o].status = IF obj.status # loaded.status THEN obj.status ELSE @]

\* the negotiation after the handler's assignments to offer.negotiation,
\* loaded when the handler first touches it
NegotiationWritten(call) ==
    IF call.op = "accept" THEN CloseNegotiation(RacedOffer, "Offer accepted")
    ELSE IF call.op = "decline" THEN CloseNegotiation(RacedOffer, "Offer declined")
    ELSE IF call.op = "counter"
         THEN IF HasNegotiation(RacedOffer)
              THEN [negotiations EXCEPT ![RacedOffer].last_message =
                      "Seller countered to " \o call.amount.s]
              ELSE negotiations @@
                     (RacedOffer :> NegotiationRow("open", "Seller countered to "
                                                            \o call.amount.s))
    ELSE IF HasNegotiation(RacedOffer)
         THEN [negotiations EXCEPT ![RacedOffer] =
                 NegotiationRow("open", Join(NoteParts(call.message, call.amount)))]
         ELSE negotiations @@
                (RacedOffer :> NegotiationRow("open", Join(NoteParts(call.message, call.amount))))

\* from the handler's first assignment to its answer
Write(s) ==
    /\ requests[s].pc = "checked"
    /\ offers' = FlushOffer(RacedOffer, requests[s].offer,
                            Assigned(requests[s].call, requests[s].offer))
    /\ negotiations' = NegotiationWritten(requests[s].call)
    /\ requests' = [requests EXCEPT ![s].pc = "done", ![s].result = "ok"]
    /\ last' = Request(requests[s].call.op, requests[s].call.user, RacedOffer, "ok")
    /\ UNCHANGED <<listings, swaps, transactions, ack, event, intents, durable>>

InitConcurrent ==
    /\ listings = [l \in ListingIds |-> [seller_id |-> SellerOf[l], status |-> "active"]]
    /\ offers = (RacedOffer :> OfferRow(InitialAmount, "L1", "B", "pending"))
    /\ negotiations \in [{RacedOffer} -> InitialNegotiations("pending")]
    /\ swaps = NoRows
    /\ transactions = NoRows
    /\ ack = NoAck
    /\ event = NoEvent
    /\ intents = {}
    /\ durable = NoSnapshot
    /\ requests = [s \in Slots |-> Waiting]
    /\ last = Request("none", "S", MissingOffer, "ok")

NextConcurrent ==
    \/ \E s \in Slots, call \in Calls : Load(s, call)
    \/ \E s \in Slots : Check(s)
    \/ \E s \in Slots : Write(s)

SpecConcurrent == InitConcurrent /\ [][NextConcurrent]_vars

-----------------------------------------------------------------------------
(* Two offers on listing L1 of S, each of buyer B or T and both pending,   *)
(* with their negotiations: the offers table has no constraint over        *)
(* (buyer_id, listing_id), so both may be B's.                             *)

BidIds == {1, 2}

Bidders == {"B", "T"}

InitBids ==
    /\ listings = [l \in ListingIds |-> [seller_id |-> SellerOf[l], status |-> "active"]]
    /\ offers \in [BidIds -> { OfferRow(InitialAmount, "L1", b, "pending") : b \in Bidders }]
    /\ negotiations \in [BidIds -> InitialNegotiations("pending")]
    /\ swaps = NoRows
    /\ transactions = NoRows
    /\ ack = NoAck
    /\ event = NoEvent
    /\ intents = {}
    /\ durable = NoSnapshot
    /\ requests = NoRequests
    /\ last = Request("none", "S", MissingOffer, "ok")

NextBids ==
    \/ \E u \in Bidders, a \in {Amt(90, 0, "90.00")} : CreateOffer("L1", u, a)
    \/ \E o \in BidIds, a \in {Amt(90, 0, "90.00")} : CounterOffer(o, "S", a)
    \/ \E o \in BidIds, u \in Users : AcceptOffer(o, u)
    \/ \E o \in BidIds, u \in Users : DeclineOffer(o, u)

SpecBids == InitBids /\ [][NextBids]_vars

-----------------------------------------------------------------------------
(* Properties.  A step is identified by the request it serves (last').     *)

SellerOfOffer(o) == listings[offers[o].listing_id].seller_id

Parties(o) == {offers[o].buyer_id, SellerOfOffer(o)}

\* the step serves request `op` on the existing offer o, issued by a party
PartyStep(o, ops) ==
    /\ last'.id = o
    /\ last'.op \in ops
    /\ last'.user \in Parties(o)

\* C1 as stated: once an offer is accepted, rejected, withdrawn or expired
\* its status never changes, every later counter, accept or decline by the
\* buyer or the seller fails with NotModifiable and every later postMessage
\* by them fails with NotNegotiable.
C1_Original ==
    [][\A o \in DOMAIN offers :
         offers[o].status \in TerminalStatuses =>
           /\ o \in DOMAIN offers'
           /\ offers'[o].status = offers[o].status
           /\ PartyStep(o, {"counter", "accept", "decline"}) => last'.result = "NotModifiable"
           /\ PartyStep(o, {"postMessage"}) => last'.result = "NotNegotiable"]_vars

\* C1 (amended): once an offer is accepted, rejected, withdrawn or expired
\* its status never changes; every later accept or decline by the buyer or
\* the seller and every later counter by the seller fails with
\* NotModifiable, a later counter by the buyer fails with NotAParty (counter
\* is seller-only and checks the caller before the status), and every later
\* postMessage by either party fails with NotNegotiable.
C1_TerminalIsFinal ==
    [][\A o \in DOMAIN offers :
         offers[o].status \in TerminalStatuses =>
           /\ o \in DOMAIN offers'
           /\ offers'[o].status = offers[o].status
           /\ PartyStep(o, {"accept", "decline"}) => last'.result = "NotModifiable"
           /\ PartyStep(o, {"counter"}) =>
                last'.result = IF last'.user = SellerOfOffer(o)
                               THEN "NotModifiable" ELSE "NotAParty"
           /\ PartyStep(o, {"postMessage"}) => last'.result = "NotNegotiable"]_vars

\* an accept by the buyer has just been refused on an offer that is no
\* longer pending
C1_Witness ==
    \E o \in DOMAIN offers :
      /\ offers[o].status \in TerminalStatuses
      /\ last = Request("accept", offers[o].buyer_id, o, "NotModifiable")

\* C2 as stated: createOffer by a non-owner on an active listing with
\* amount > 0 succeeds and adds exactly one offer (pending, that amount, that
\* buyer, that listing) together with one open negotiation whose
\* last_message is 'Offer created at <amount>'.
C2_CreateSucceeds ==
    [][last'.op = "createOffer" => \A l \in ListingIds, a \in DecimalAmounts :
         ( /\ listings[l].seller_id # last'.user
           /\ listings[l].status = "active"
           /\ ~NonPositive(a)
           /\ CreateOffer(l, last'.user, a) )
         => /\ last'.result = "ok"
            /\ \E n \in DOMAIN offers' \ DOMAIN offers :
                 /\ DOMAIN offers' = DOMAIN offers \cup {n}
                 /\ offers'[n] = OfferRow(Stored(a.u, a.m), l, last'.user, "pending")
                 /\ \A o \in DOMAIN offers : offers'[o] = offers[o]
                 /\ DOMAIN negotiations' = DOMAIN negotiations \cup {n}
                 /\ negotiations'[n] = NegotiationRow("open", "Offer created at " \o a.s)
                 /\ \A o \in DOMAIN negotiations : negotiations'[o] = negotiations[o]]_vars

\* C3: createOffer issued by the listing's owner fails with SelfDealing for
\* every positive amount and every listing status, and creates no offer and
\* no negotiation.
C3_SelfDealing ==
    [][last'.op = "createOffer" => \A l \in ListingIds, a \in DecimalAmounts :
         ( /\ listings[l].seller_id = last'.user
           /\ ~NonPositive(a)
           /\ CreateOffer(l, last'.user, a) )
         => /\ last'.result = "SelfDealing"
            /\ UNCHANGED <<offers, negotiations>>]_vars

\* the owner of a listing has just been refused an offer on it
C3_Witness ==
    \E l \in DOMAIN listings :
      last = Request("createOffer", listings[l].seller_id, MissingOffer, "SelfDealing")

\* C4: createOffer by a non-owner with a positive amount on a listing whose
\* status is draft, sold or archived fails with ListingNotActive and creates
\* neither an offer nor a negotiation.
C4_ListingNotActive ==
    [][last'.op = "createOffer" => \A l \in ListingIds, a \in DecimalAmounts :
         ( /\ listings[l].seller_id # last'.user
           /\ listings[l].status \in {"draft", "sold", "archived"}
           /\ ~NonPositive(a)
           /\ CreateOffer(l, last'.user, a) )
         => /\ last'.result = "ListingNotActive"
            /\ UNCHANGED <<offers, negotiations>>]_vars

\* a non-owner has just been refused an offer on a listing that is draft,
\* sold or archived
C4_Witness ==
    /\ last.op = "createOffer"
    /\ last.result = "ListingNotActive"
    /\ \E l \in DOMAIN listings :
         /\ listings[l].status \in {"draft", "sold", "archived"}
         /\ listings[l].seller_id # last.user

\* C5 as stated: on a pending offer, counter with newAmount > 0 succeeds
\* when issued by the buyer and when issued by the seller; it overwrites the
\* amount with newAmount in place, leaves the status pending and records the
\* counter in last_message ('Seller countered to <newAmount>' for the seller).
C5_Original ==
    [][last'.op = "counter" => \A o \in DOMAIN offers, a \in DecimalAmounts :
         ( /\ PartyStep(o, {"counter"})
           /\ offers[o].status = "pending"
           /\ ~NonPositive(a)
           /\ CounterOffer(o, last'.user, a) )
         => /\ last'.result = "ok"
            /\ offers' = [offers EXCEPT ![o].amount = Stored(a.u, a.m)]
            /\ o \in DOMAIN negotiations'
            /\ last'.user = SellerOfOffer(o) =>
                 negotiations'[o].last_message = "Seller countered to " \o a.s]_vars

\* C5 (amended): on a pending offer, counter with newAmount > 0 succeeds
\* when issued by the listing's seller, provided newAmount rounded to two
\* decimals is below 10^8 (otherwise the write is refused and nothing
\* changes); issued by the buyer it fails with NotAParty and changes
\* nothing.  On success the amount is overwritten in place with newAmount
\* rounded to two decimals, no offer is added, the status stays pending and
\* last_message is 'Seller countered to <newAmount>'.
C5_SellerCounter ==
    [][last'.op = "counter" => \A o \in DOMAIN offers, a \in DecimalAmounts :
         ( /\ PartyStep(o, {"counter"})
           /\ offers[o].status = "pending"
           /\ ~NonPositive(a)
           /\ CounterOffer(o, last'.user, a) )
         => IF last'.user # SellerOfOffer(o)
            THEN last'.result = "NotAParty" /\ UNCHANGED <<offers, negotiations>>
            ELSE IF NumericOverflow(a)
            THEN last'.result = "StorageError" /\ UNCHANGED <<offers, negotiations>>
            ELSE /\ last'.result = "ok"
                 /\ offers' = [offers EXCEPT ![o].amount = Quantize(a)]
                 /\ offers'[o].status = "pending"
                 /\ DOMAIN negotiations' = DOMAIN negotiations \cup {o}
                 /\ negotiations'[o] =
                      NegotiationRow(IF o \in DOMAIN negotiations
                                     THEN negotiations[o].status ELSE "open",
                                     "Seller countered to " \o a.s)
                 /\ \A n \in DOMAIN negotiations \ {o} :
                      negotiations'[n] = negotiations[n]]_vars

\* the seller has just countered a pending offer to 90.00
C5_Witness ==
    \E o \in DOMAIN offers :
      /\ last = Request("counter", SellerOfOffer(o), o, "ok")
      /\ offers[o].status = "pending"
      /\ offers[o].amount = Stored(90, 0)
      /\ o \in DOMAIN negotiations
      /\ negotiations[o].last_message = "Seller countered to 90.00"

\* C6 as stated: non-positive amounts never enter an offer, every stored
\* offer amount is > 0 in every reachable state.
C6_AmountsPositive ==
    \A o \in DOMAIN offers : IsPositiveStored(offers[o].amount)

\* C7: counter, accept and decline issued by a user who is neither the
\* offer's buyer nor the listing's seller fail with NotAParty and leave the
\* offer and its negotiation unchanged, whatever the offer's status and the
\* amount requested.
C7_NonPartyRefused ==
    [][\A o \in DOMAIN offers :
         ( /\ last'.id = o
           /\ last'.op \in {"counter", "accept", "decline"}
           /\ last'.user \notin Parties(o) )
         => /\ last'.result = "NotAParty"
            /\ UNCHANGED <<offers, negotiations>>]_vars

\* a third party has just been refused a counter on an accepted offer
C7_Witness ==
    \E o \in DOMAIN offers : \E u \in Users \ Parties(o) :
      /\ offers[o].status = "accepted"
      /\ last = Request("counter", u, o, "NotAParty")

\* the negotiation of a pending offer is open, that of an accepted or
\* rejected offer is closed
NegotiationFollowsOffer ==
    \A o \in DOMAIN negotiations :
      /\ o \in DOMAIN offers
      /\ offers[o].status = "pending" => negotiations[o].status = "open"
      /\ offers[o].status \in {"accepted", "rejected"} => negotiations[o].status = "closed"

\* accept / decline by a party on a pending offer set accepted / rejected
\* and close the negotiation in the same step; closed stays closed
DecisionClosesNegotiation ==
    \A o \in DOMAIN offers :
      /\ (PartyStep(o, {"accept"}) /\ offers[o].status = "pending") =>
            /\ last'.result = "ok"
            /\ offers'[o].status = "accepted"
            /\ o \in DOMAIN negotiations =>
                 o \in DOMAIN negotiations' /\ negotiations'[o].status = "closed"
      /\ (PartyStep(o, {"decline"}) /\ offers[o].status = "pending") =>
            /\ last'.result = "ok"
            /\ offers'[o].status = "rejected"
            /\ o \in DOMAIN negotiations =>
                 o \in DOMAIN negotiations' /\ negotiations'[o].status = "closed"
      /\ (o \in DOMAIN negotiations /\ negotiations[o].status = "closed") =>
            o \in DOMAIN negotiations' /\ negotiations'[o].status = "closed"

\* C8: an offer's negotiation is open while the offer is pending and closed
\* once it is accepted or rejected; accept and decline by a party on a
\* pending offer set accepted and rejected and close the negotiation in the
\* same step, and a closed negotiation never becomes open again.
C8_NegotiationClosedWithOffer ==
    []NegotiationFollowsOffer /\ [][DecisionClosesNegotiation]_vars

\* the buyer has just accepted a pending offer and its negotiation is closed
C8_Witness ==
    \E o \in DOMAIN negotiations :
      /\ last = Request("accept", offers[o].buyer_id, o, "ok")
      /\ offers[o].status = "accepted"
      /\ negotiations[o] = NegotiationRow("closed", "Offer accepted")

\* C9: decline by a party on an offer that is already rejected fails with
\* NotModifiable and leaves the offer's status and the negotiation's
\* last_message unchanged.
C9_DeclineTwice ==
    [][\A o \in DOMAIN offers :
         (PartyStep(o, {"decline"}) /\ offers[o].status = "rejected")
         => /\ last'.result = "NotModifiable"
            /\ UNCHANGED <<offers, negotiations>>]_vars

\* a second decline has just been refused on a rejected offer whose
\* negotiation still reads 'Offer declined'
C9_Witness ==
    \E o \in DOMAIN negotiations :
      /\ last = Request("decline", SellerOfOffer(o), o, "NotModifiable")
      /\ offers[o].status = "rejected"
      /\ negotiations[o] = NegotiationRow("closed", "Offer declined")

\* C10: an offer's amount changes only in a step where its status is pending
\* before and after the step.
C10_AmountOnlyWhilePending ==
    [][\A o \in DOMAIN offers :
         (o \in DOMAIN offers' /\ offers'[o].amount # offers[o].amount)
         => offers[o].status = "pending" /\ offers'[o].status = "pending"]_vars

\* the buyer has just changed the amount of a pending offer through
\* postMessage
C10_Witness ==
    \E o \in DOMAIN offers :
      /\ last = Request("postMessage", offers[o].buyer_id, o, "ok")
      /\ offers[o].status = "pending"
      /\ offers[o].amount = Stored(90, 0)

SameAmount(a, ca) == a.u = ca.u /\ a.m = ca.m

\* counter by u with amount a on offer o succeeds
CounterSucceeds(o, u, a) == CounterOfferOutcome(o, u, a) = "ok"

\* a counter step by u with amount a on offer o succeeds and leaves row
CounterYields(o, u, a, row) ==
    ENABLED (CounterOffer(o, u, a) /\ last'.result = "ok" /\ offers'[o] = row)

\* postMessage by u with counterAmount ca on offer o succeeds
PostSucceeds(o, u, msg, ca) == PostNegotiationOutcome(o, u, msg, ca) = "ok"

\* a postMessage step by u with counterAmount ca on offer o succeeds and
\* leaves row
PostYields(o, u, msg, ca, row) ==
    ENABLED (PostNegotiation(o, u, msg, ca) /\ last'.result = "ok" /\ offers'[o] = row)

\* the rows offer o can be left as by a request that carries amount a
RowsAfter(o, a) ==
    { [offers[o] EXCEPT !.amount = am, !.status = st] :
        am \in {offers[o].amount, Quantize(a)}, st \in OfferStatus }

\* both operations fail, or both succeed and leave the offer the same (each
\* operation leaves one row)
SameEffect(o, u, a, msg, ca) ==
    IF CounterSucceeds(o, u, a) /\ PostSucceeds(o, u, msg, ca)
    THEN \E row \in RowsAfter(o, a) :
           CounterYields(o, u, a, row) /\ PostYields(o, u, msg, ca, row)
    ELSE ~CounterSucceeds(o, u, a) /\ ~PostSucceeds(o, u, msg, ca)

\* C12 as stated: postMessage with a counterAmount behaves on the offer
\* exactly like counter with the same acting user and amount: for every
\* offer status, acting user and amount either both fail or both succeed,
\* and when they succeed they leave the offer with the same amount and status.
C12_Original ==
    \A o \in DOMAIN offers, u \in Users, a \in DecimalAmounts,
       ca \in FloatAmounts, msg \in Messages :
      SameAmount(a, ca) => SameEffect(o, u, a, msg, ca)

\* the buyer's counterAmount is one that postMessage accepts on offer o
BuyerCounterAccepted(o, u, a) ==
    /\ u = offers[o].buyer_id /\ u # SellerOfOffer(o)
    /\ offers[o].status = "pending"
    /\ ~NonPositive(a) /\ ~NumericOverflow(a)

\* C12 (amended): postMessage with a counterAmount behaves on the offer
\* like counter with the same amount when the acting user is the listing's
\* seller or a third party, and for every user when the offer is not
\* pending or the amount is refused (both fail, or both succeed and leave
\* the same amount and status); issued by the buyer on a pending offer with
\* an amount > 0 that the column can hold, postMessage succeeds and sets the
\* amount (rounded to two decimals, status pending) while counter fails.
C12_CounterThroughPost ==
    \A o \in DOMAIN offers, u \in Users, a \in DecimalAmounts,
       ca \in FloatAmounts, msg \in Messages :
      SameAmount(a, ca) =>
        IF BuyerCounterAccepted(o, u, a)
        THEN /\ ~CounterSucceeds(o, u, a)
             /\ PostYields(o, u, msg, ca,
                           [offers[o] EXCEPT !.amount = Quantize(a), !.status = "pending"])
        ELSE SameEffect(o, u, a, msg, ca)

\* the seller has just set the amount of a pending offer to 90.00 through
\* postMessage, as a counter would
C12_Witness ==
    \E o \in DOMAIN offers :
      /\ last = Request("postMessage", SellerOfOffer(o), o, "ok")
      /\ offers[o].status = "pending"
      /\ offers[o].amount = Stored(90, 0)
      /\ o \in DOMAIN negotiations
      /\ negotiations[o].last_message = "Countered to 90.0"

\* C13: postMessage by a party on a pending offer with neither a message
\* nor a counterAmount fails with EmptyPost and leaves the offer's amount
\* and status and the negotiation's status and last_message unchanged.
C13_EmptyPost ==
    [][last'.op = "postMessage" => \A o \in DOMAIN offers, msg \in Messages :
         ( /\ PartyStep(o, {"postMessage"})
           /\ offers[o].status = "pending"
           /\ ~Truthy(msg)
           /\ PostNegotiation(o, last'.user, msg, NoAmount) )
         => /\ last'.result = "EmptyPost"
            /\ UNCHANGED <<offers, negotiations>>]_vars

\* the buyer's empty post has just been refused on a pending offer
C13_Witness ==
    \E o \in DOMAIN offers :
      /\ last = Request("postMessage", offers[o].buyer_id, o, "EmptyPost")
      /\ offers[o].status = "pending"

\* the step serves a decision (accept or decline) on the existing swap s
DecisionStep(s) ==
    /\ last'.id = s
    /\ last'.op \in {"swapAccept", "swapDecline"}

\* C14: accept or decline of a swap by any user other than
\* swap.counterparty, the initiator included, fails with NotCounterparty and
\* leaves the swap unchanged, whatever the swap's current status.
C14_NotCounterparty ==
    [][\A s \in DOMAIN swaps :
         (DecisionStep(s) /\ last'.user # swaps[s].counterparty_id)
         => /\ last'.result = "NotCounterparty"
            /\ UNCHANGED swaps]_vars

\* the initiator has just been refused the acceptance of their own proposal
C14_Witness ==
    \E s \in DOMAIN swaps :
      /\ swaps[s].status = "proposed"
      /\ last = Request("swapAccept", swaps[s].initiator_id, s, "NotCounterparty")

\* every swap is proposed, accepted or rejected
SwapStatusReached ==
    \A s \in DOMAIN swaps : swaps[s].status \in {"proposed", "accepted", "rejected"}

\* a new swap is proposed; a status changes only from proposed, by the
\* counterparty's accept (to accepted) or decline (to rejected); a decision
\* by the counterparty succeeds on a proposed swap and is refused otherwise
SwapTransition ==
    /\ \A s \in DOMAIN swaps' \ DOMAIN swaps :
         last'.op = "propose" /\ swaps'[s].status = "proposed"
    /\ \A s \in DOMAIN swaps :
         /\ s \in DOMAIN swaps'
         /\ swaps'[s].status # swaps[s].status =>
              /\ swaps[s].status = "proposed"
              /\ DecisionStep(s)
              /\ last'.user = swaps[s].counterparty_id
              /\ swaps'[s].status =
                   IF last'.op = "swapAccept" THEN "accepted" ELSE "rejected"
         /\ (DecisionStep(s) /\ last'.user = swaps[s].counterparty_id) =>
              IF swaps[s].status = "proposed"
              THEN /\ last'.result = "ok"
                   /\ swaps'[s].status # "proposed"
              ELSE /\ last'.result = "NotDecidable"
                   /\ UNCHANGED swaps

\* C15: a swap is created in status proposed and its only status changes
\* are proposed -> accepted (the counterparty accepts) and proposed ->
\* rejected (the counterparty declines); a decision by the counterparty on a
\* swap that is not proposed fails with NotDecidable and changes nothing,
\* and no swap ever reaches completed or cancelled.
C15_SwapTransitions ==
    []SwapStatusReached /\ [][SwapTransition]_vars

\* the counterparty has just been refused a decline on a swap they accepted
C15_Witness ==
    \E s \in DOMAIN swaps :
      /\ swaps[s].status = "accepted"
      /\ last = Request("swapDecline", swaps[s].counterparty_id, s, "NotDecidable")

\* each swap's initiator differs from its counterparty, who owns the listing
SwapPartiesValid ==
    \A s \in DOMAIN swaps :
      /\ swaps[s].initiator_id # swaps[s].counterparty_id
      /\ swaps[s].listing_id \in DOMAIN listings
      /\ listings[swaps[s].listing_id].seller_id = swaps[s].counterparty_id

\* propose on two existing listings: NotOwner, SelfDealing, or one new swap
ProposeEffect ==
    last'.op = "propose" => \A pl \in DOMAIN listings, rl \in DOMAIN listings :
      CreateSwap(last'.user, pl, rl) =>
        IF listings[pl].seller_id # last'.user
        THEN last'.result = "NotOwner" /\ UNCHANGED swaps
        ELSE IF listings[rl].seller_id = last'.user
        THEN last'.result = "SelfDealing" /\ UNCHANGED swaps
        ELSE /\ last'.result = "ok"
             /\ \E n \in DOMAIN swaps' \ DOMAIN swaps :
                  /\ DOMAIN swaps' = DOMAIN swaps \cup {n}
                  /\ swaps'[n] = SwapRow(rl, last'.user, listings[rl].seller_id, "proposed")
                  /\ \A s \in DOMAIN swaps : swaps'[s] = swaps[s]

\* C16: propose fails with NotOwner when the proposer does not own
\* proposerListing and, when they own it, with SelfDealing when they also
\* own recipientListing, creating no swap; on success the new swap has
\* status proposed, listing = recipientListing, initiator = proposer and
\* counterparty = owner of recipientListing, so in every reachable state each
\* swap's initiator differs from its counterparty and its counterparty owns
\* the swap's listing.
C16_Propose ==
    []SwapPartiesValid /\ [][ProposeEffect]_vars

\* S has just proposed L1 against B's listing L2
C16_Witness ==
    \E s \in DOMAIN swaps :
      /\ last = Request("propose", "S", s, "ok")
      /\ swaps[s] = SwapRow("L2", "S", "B", "proposed")

\* C17: no offer, negotiation or swap operation (createOffer, counter,
\* accept, decline, postMessage, propose, swap accept, swap decline) changes
\* any listing's status or owner: accepting an offer never sets its listing
\* to sold and accepting a swap transfers no listing.
C17_ListingsUntouched ==
    [][last'.op \in {"createOffer", "counter", "accept", "decline", "postMessage",
                     "propose", "swapAccept", "swapDecline"}
       /\ listings' = listings]_vars

\* the offer on L1 and a swap have both been accepted; L1 is still active
\* and both listings still belong to their owners
C17_Witness ==
    /\ \E o \in DOMAIN offers :
         offers[o].status = "accepted" /\ listings[offers[o].listing_id].status = "active"
    /\ \E s \in DOMAIN swaps : swaps[s].status = "accepted"
    /\ last.op = "swapAccept" /\ last.result = "ok"
    /\ \A l \in MarketListingIds : listings[l].seller_id = MarketSellerOf[l]

\* the payment intent an event is about: the intent its object belongs to,
\* or the object's own id when the object is the payment intent
EventIntent(e) ==
    IF e.payment_intent # NoId THEN e.payment_intent
    ELSE IF e.id \in ChargeIds THEN NoId
    ELSE e.id

\* the event types the ledger's contract maps, with their target status
TargetStatus ==
    [ t \in { "payment_intent.succeeded", "payment_intent.payment_failed",
              "charge.failed", "charge.refunded" } |->
        IF t = "payment_intent.succeeded" THEN "succeeded"
        ELSE IF t = "charge.refunded" THEN "refunded"
        ELSE "failed" ]

\* transaction t carries the intent id event e is about
Correlated(e, t) ==
    /\ e.object = "mapping"
    /\ EventIntent(e) # NoId
    /\ transactions[t].provider_payment_intent_id = EventIntent(e)

\* C18 as stated: applyProviderEvent on an event whose payment-intent
\* identifier equals that of a stored transaction sets that transaction's
\* status to succeeded for payment_intent.succeeded, to failed for
\* payment_intent.payment_failed or charge.failed, and to refunded for
\* charge.refunded; it leaves that transaction's amount, currency, buyer and
\* listing unchanged and leaves every other transaction unchanged.
C18_EventSetsStatus ==
    [][last'.op = "applyProviderEvent" =>
         /\ DOMAIN transactions' = DOMAIN transactions
         /\ \A t \in DOMAIN transactions :
              IF Correlated(event', t)
              THEN event'.type \in DOMAIN TargetStatus =>
                     transactions'[t] =
                       [transactions[t] EXCEPT !.status = TargetStatus[event'.type]]
              ELSE transactions'[t] = transactions[t]]_vars

\* C19 as stated: applyProviderEvent overwrites the status unconditionally:
\* for every current status of the matching transaction and every mapped
\* event, the status after the call is the event's target status.
C19_UnconditionalOverwrite ==
    [][last'.op = "applyProviderEvent" =>
         \A t \in DOMAIN transactions, before \in TransactionStatus :
           ( /\ Correlated(event', t)
             /\ event'.type \in DOMAIN TargetStatus
             /\ transactions[t].status = before )
           => transactions'[t].status = TargetStatus[event'.type]]_vars

\* C20: when no transaction has the event's payment-intent identifier,
\* applyProviderEvent reports TransactionNotFound as its action outcome
\* without raising (the webhook is still acknowledged as received) and
\* changes no transaction.
C20_TransactionNotFound ==
    [][( /\ last'.op = "applyProviderEvent"
         /\ event'.object = "mapping"
         /\ EventIntent(event') # NoId
         /\ \A t \in DOMAIN transactions : ~Correlated(event', t) )
         => /\ ack'.received
            /\ ack'.action = "transaction_not_found"
            /\ ack'.transaction_id = MissingTransaction
            /\ last'.result = "transaction_not_found"
            /\ UNCHANGED transactions]_vars

\* an event for an intent nobody holds has just been acknowledged as
\* transaction_not_found while the ledger holds a pending transaction
C20_Witness ==
    /\ last.op = "applyProviderEvent"
    /\ EventIntent(event) = "pi_unknown"
    /\ ack.received /\ ack.action = "transaction_not_found"
    /\ \E t \in DOMAIN transactions : transactions[t].status = "pending"

\* the operations a user invokes
UserOperations ==
    { "createOffer", "counter", "accept", "decline", "postMessage",
      "propose", "swapAccept", "swapDecline",
      "updateListing", "deleteListing", "initiateCheckout" }

\* C21: a transaction's status is changed only by applyProviderEvent:
\* initiateCheckout creates it with status pending (and nothing else creates
\* one), no checkout, offer, swap or listing operation changes the status
\* of an existing transaction or removes it, and a status written by a
\* provider event is never pending, so a transaction that has left pending
\* never returns to it.
C21_StatusOnlyByProvider ==
    [][/\ \A t \in DOMAIN transactions' \ DOMAIN transactions :
            /\ last'.op = "initiateCheckout" /\ last'.result = "ok" /\ last'.id = t
            /\ transactions'[t].status = "pending"
       /\ (last'.op = "initiateCheckout" /\ last'.result = "ok") =>
            DOMAIN transactions' # DOMAIN transactions
       /\ \A t \in DOMAIN transactions :
            /\ t \in DOMAIN transactions'
            /\ last'.op \in UserOperations =>
                 transactions'[t].status = transactions[t].status
            /\ transactions'[t].status # transactions[t].status =>
                 /\ last'.op = "applyProviderEvent"
                 /\ transactions'[t].status # "pending"]_vars

\* the owner has just deleted listing L1 while the ledger holds a refunded
\* purchase of it, which is still refunded
C21_Witness ==
    /\ last = Request("deleteListing", "S", ListingKey("L1"), "ok")
    /\ \E t \in DOMAIN transactions :
         /\ transactions[t].status = "refunded"
         /\ transactions[t].provider_payment_intent_id = PlatformIntent

\* the ledgers a webhook can leave: the ledger as it is, or with one status
\* rewritten
LedgersAfter ==
    {transactions} \cup
      { [transactions EXCEPT ![t].status = st] :
          t \in DOMAIN transactions, st \in TransactionStatus }

\* the answers a webhook can give
AcksAfter ==
    {NoAck} \cup
      { WebhookAck(TRUE, v, action, t) :
          v \in BOOLEAN,
          action \in {"None", "transaction_not_found", "no_status_change"}
                       \cup { "set_status_" \o st : st \in TransactionStatus },
          t \in DOMAIN transactions \cup {MissingTransaction} }

\* answer a with the verification outcome v reported instead
ReportedAs(a, v) == IF a.received THEN [a EXCEPT !.verified = v] ELSE a

\* C22: the effect of a webhook on the ledger does not depend on signature
\* verification: whatever a delivery of an event does in a ledger state, a
\* delivery of the same event in the same state under every other outcome
\* of the verification (signature accepted, rejected, absent, or no secret
\* configured) can end with the same transactions and the same answer but
\* for the verified flag.
C22_VerificationIndependent ==
    [][last'.op = "applyProviderEvent" =>
         \E e \in Events : e = event' /\
         \E txs \in LedgersAfter : txs = transactions' /\
         \E a \in AcksAfter : a = ack' /\
           \A v \in VerificationOutcomes :
             ENABLED ( /\ PaymentsWebhook(e, v)
                       /\ transactions' = txs
                       /\ ack' = ReportedAs(a, v) )]_vars

\* an event whose signature was not verified has just set a transaction to
\* succeeded
C22_Witness ==
    /\ last.op = "applyProviderEvent"
    /\ ~ack.verified /\ ack.action = "set_status_succeeded"
    /\ \E t \in DOMAIN transactions :
         ack.transaction_id = t /\ transactions[t].status = "succeeded"

\* the listing id of a checkout request resolves to no listing
Unresolved(l) == l # NoListing /\ l \notin DOMAIN listings

\* C23 as stated: initiateCheckout with amount <= 0 fails with InvalidAmount
\* and with a listing id that resolves to no listing fails with
\* ListingNotFound (either kind when both apply), in both cases creating no
\* transaction and no payment intent; otherwise it persists exactly one new
\* transaction with status pending, the requested amount, the caller as
\* buyer and the payment-intent identifier returned by the provider.
C23_CheckoutOutcomes ==
    [][last'.op = "initiateCheckout" =>
         \A l \in ListingIds \cup {NoListing, MissingListing},
            a \in MinorUnitAmounts, c \in Currencies :
           Checkout(last'.user, l, a, c) =>
             IF NonPositive(a) \/ Unresolved(l)
             THEN /\ last'.result \in
                       (IF NonPositive(a) THEN {"InvalidAmount"} ELSE {})
                         \cup (IF Unresolved(l) THEN {"ListingNotFound"} ELSE {})
                  /\ UNCHANGED <<transactions, intents>>
             ELSE /\ last'.result = "ok"
                  /\ \E n \in DOMAIN transactions' \ DOMAIN transactions :
                       /\ DOMAIN transactions' = DOMAIN transactions \cup {n}
                       /\ \A t \in DOMAIN transactions : transactions'[t] = transactions[t]
                       /\ transactions'[n].status = "pending"
                       /\ transactions'[n].amount = Stored(a.u, a.m)
                       /\ transactions'[n].buyer_id = last'.user
                       /\ transactions'[n].provider_payment_intent_id \in intents'
                       /\ intents' \ intents \subseteq
                            {transactions'[n].provider_payment_intent_id}]_vars

\* amount x 100 truncated toward zero, of a positive amount
TruncatedCents(a) == (a.u * 1000 + a.m) \div 10

\* C24 as stated: for every amount accepted by initiateCheckout, the integer
\* handed to the payment provider is amount x 100 truncated toward zero
\* (12.99 gives 1299, 12.999 gives 1299, 0.005 gives 0), while the persisted
\* transaction keeps the amount as requested.
C24_MinorUnits ==
    [][(last'.op = "initiateCheckout" /\ last'.result = "ok") =>
         \A l \in ListingIds \cup {NoListing, MissingListing},
            a \in MinorUnitAmounts, c \in Currencies :
           Checkout(last'.user, l, a, c) =>
             /\ MockIntentId(TruncatedCents(a), Lower(c), l, last'.user) \in intents'
             /\ transactions'[last'.id].provider_payment_intent_id =
                  MockIntentId(TruncatedCents(a), Lower(c), l, last'.user)
             /\ transactions'[last'.id].amount = Stored(a.u, a.m)]_vars

\* C25 as stated: every request runs in its own storage transaction,
\* committed when the handler succeeds and rolled back on a fault: after a
\* request that answered with success the rows hold what it wrote (the offer
\* it accepted is accepted, the offer it declined is rejected, the counter
\* it made is in the negotiation, the listing it deleted is gone) for the
\* requests that follow, and a request that failed leaves every row as it
\* was.
C25_CommitOnSuccess ==
    [][IF last'.result = "ok"
       THEN /\ last'.op = "accept" => offers'[last'.id].status = "accepted"
            /\ last'.op = "decline" => offers'[last'.id].status = "rejected"
            /\ last'.op = "counter" => negotiations'[last'.id] # negotiations[last'.id]
            /\ last'.op = "deleteListing" => DOMAIN listings' # DOMAIN listings
       ELSE Rows' = Rows]_vars

\* C26: every protected operation resolves the caller from an access token
\* only and without side effects: a missing or non-Bearer credential fails
\* with Unauthenticated, a token whose signature or expiry check fails gives
\* InvalidToken, a refresh token where an access token is required gives
\* WrongTokenKind, an access token presented to token refresh gives
\* WrongTokenKind, and in each of these cases no stored entity changes; a
\* valid access token makes its subject the caller.
C26_AccessTokenOnly ==
    [][/\ \A cred \in Credentials :
            ProtectedStep(cred) =>
              /\ ~IsBearer(cred) => last'.result = "Unauthenticated"
              /\ (IsBearer(cred) /\ ~Decodes(cred.token)) => last'.result = "InvalidToken"
              /\ (IsBearer(cred) /\ Decodes(cred.token) /\ cred.token.type = "refresh") =>
                    last'.result = "WrongTokenKind"
              /\ (IsBearer(cred) /\ Decodes(cred.token) /\ cred.token.type = "access") =>
                    (last'.result \notin AuthFailures /\ last'.user = cred.token.sub)
              /\ last'.result \in AuthFailures => (Rows' = Rows /\ intents' = intents)
       /\ \A t \in Tokens :
            RefreshTokens(t) =>
              /\ ~Decodes(t) => last'.result = "InvalidToken"
              /\ (Decodes(t) /\ t.type = "access") => last'.result = "WrongTokenKind"
              /\ (Decodes(t) /\ t.type = "refresh") => last'.result = "ok"
              /\ Rows' = Rows /\ intents' = intents]_vars

\* a refresh token was presented to accept while the offer was pending and
\* a purchase was on the ledger
C26_Witness ==
    /\ last = Request("accept", Anonymous, MissingOffer, "WrongTokenKind")
    /\ 1 \in DOMAIN offers /\ offers[1].status = "pending"
    /\ transactions # NoRows

\* C27 as stated: a listing's status transitions are monotonic except
\* draft <-> active: over every sequence of updates by its owner, once a
\* listing is sold or archived it never returns to draft or active.
C27_StatusMonotonic ==
    [][\A l \in DOMAIN listings \cap DOMAIN listings' :
         listings[l].status \in {"sold", "archived"} =>
           listings'[l].status \notin {"draft", "active"}]_vars

\* the listing a listing request is about
Addressed(l) == last'.op \in {"updateListing", "deleteListing"} /\ last'.id = ListingKey(l)

\* C28: only the owner may mutate a listing: update and delete issued by any
\* other user fail with NotOwner and leave the listing and the offers,
\* negotiations and swaps that reference it unchanged, and no operation
\* changes a listing's owner.
C28_OnlyOwnerMutates ==
    [][\A l \in DOMAIN listings :
         /\ (Addressed(l) /\ last'.user # listings[l].seller_id) =>
               /\ last'.result = "NotOwner"
               /\ l \in DOMAIN listings' /\ listings'[l] = listings[l]
               /\ UNCHANGED <<offers, negotiations, swaps>>
         /\ l \in DOMAIN listings' => listings'[l].seller_id = listings[l].seller_id]_vars

\* B was refused the deletion of S's listing L1 while an offer with its
\* negotiation and a swap referenced it
C28_Witness ==
    /\ last = Request("deleteListing", "B", ListingKey("L1"), "NotOwner")
    /\ OffersOf("L1") # {} /\ NegotiationsOf("L1") # {} /\ SwapsOf("L1") # {}

\* the listing a successful delete removed
Deleted(l) == last'.op = "deleteListing" /\ last'.result = "ok" /\ last'.id = ListingKey(l)

\* C29: deleting a listing destroys its offers and swaps, destroying an
\* offer destroys its negotiation (in every reachable state each
\* negotiation's offer exists), and the transactions that referenced the
\* deleted listing survive with the listing reference cleared and with
\* status, amount and payment-intent identifier unchanged.
C29_DeleteCascade ==
    /\ [](\A o \in DOMAIN negotiations : o \in DOMAIN offers)
    /\ [][/\ \A o \in DOMAIN offers \ DOMAIN offers' : o \notin DOMAIN negotiations'
          /\ \A l \in DOMAIN listings :
               Deleted(l) =>
                 /\ l \notin DOMAIN listings'
                 /\ DOMAIN offers' = DOMAIN offers \ OffersOf(l)
                 /\ DOMAIN swaps' = DOMAIN swaps \ SwapsOf(l)
                 /\ \A o \in DOMAIN offers' : offers'[o] = offers[o]
                 /\ \A s \in DOMAIN swaps' : swaps'[s] = swaps[s]
                 /\ DOMAIN transactions' = DOMAIN transactions
                 /\ \A t \in DOMAIN transactions :
                      /\ transactions'[t].listing_id =
                           (IF transactions[t].listing_id = l THEN NoListing
                            ELSE transactions[t].listing_id)
                      /\ transactions'[t].status = transactions[t].status
                      /\ transactions'[t].amount = transactions[t].amount
                      /\ transactions'[t].provider_payment_intent_id =
                           transactions[t].provider_payment_intent_id]_vars

\* S deleted L1: its offer, negotiation and swaps are gone and the settled
\* purchase of it remains without a listing
C29_Witness ==
    /\ last = Request("deleteListing", "S", ListingKey("L1"), "ok")
    /\ offers = NoRows /\ negotiations = NoRows /\ swaps = NoRows
    /\ \E t \in DOMAIN transactions :
         /\ transactions[t].listing_id = NoListing
         /\ transactions[t].status = "succeeded"

\* both handlers have answered with success
BothSucceeded == \A r \in Racers : requests[r].pc = "done" /\ requests[r].result = "ok"

Writing(s) == requests[s].pc = "checked" /\ requests'[s].pc = "done"

\* the other handler is a counter that has written and answered with success
AfterCounter(s) ==
    \E t \in Slots \ {s} :
      /\ requests[t].call.op = "counter"
      /\ requests[t].pc = "done" /\ requests[t].result = "ok"

\* C31 as stated: when two counters on the same pending offer run
\* concurrently, both succeed and the outcome is last-write-wins: the offer
\* stays pending, its final amount is the amount of whichever counter wrote
\* last, and the negotiation's last_message names that same amount.
C31_CountersLastWriteWins ==
    [][\A s \in Slots :
         (/\ Writing(s)
          /\ requests[s].call.op = "counter"
          /\ AfterCounter(s)
          /\ offers[RacedOffer].status = "pending") =>
           /\ offers'[RacedOffer].status = "pending"
           /\ offers'[RacedOffer].amount = Quantize(requests[s].call.amount)
           /\ negotiations'[RacedOffer].last_message =
                "Seller countered to " \o requests[s].call.amount.s]_vars

\* C32 as stated: a negotiation closed by accept or decline is never set
\* back to open, also when a postMessage on the same offer runs concurrently
\* with that accept or decline, having read the offer as pending before the
\* accept or decline wrote.
C32_NeverReopened ==
    [][\A o \in DOMAIN negotiations \cap DOMAIN negotiations' :
         (negotiations[o].status = "closed" /\ offers[o].status \in {"accepted", "rejected"}) =>
           negotiations'[o].status # "open"]_vars

\* C33 as stated: when an accept and a decline on the same pending offer run
\* concurrently, at most one of them succeeds, so an offer's status is
\* written at most once after pending and no accepted offer later becomes
\* rejected (or the reverse).
C33_DecidedOnce ==
    [][\A o \in DOMAIN offers \cap DOMAIN offers' :
         offers[o].status \in {"accepted", "rejected"} =>
           /\ offers'[o].status = offers[o].status
           /\ ~(last'.op \in {"accept", "decline"} /\ last'.id = o /\ last'.result = "ok"
                 /\ last' # last)]_vars

\* C34 as stated: a charge.failed or charge.refunded event is correlated by
\* payment-intent identifier: when the event object's own id is a charge
\* identifier and its payment_intent field names the intent of a stored
\* transaction, that transaction's status is set to the mapped status.
C34_ChargeCorrelation ==
    [][last'.op = "applyProviderEvent" =>
         \A t \in DOMAIN transactions :
           ( /\ event'.type \in {"charge.failed", "charge.refunded"}
             /\ event'.id \in ChargeIds
             /\ event'.payment_intent = transactions[t].provider_payment_intent_id )
           => transactions'[t].status = TargetStatus[event'.type]]_vars

\* C35 as stated: an event whose type is none of payment_intent.succeeded,
\* payment_intent.payment_failed, charge.failed and charge.refunded changes
\* no transaction's status, even when its payment-intent identifier matches
\* a stored transaction.
C35_UnmappedTypes ==
    [][(last'.op = "applyProviderEvent" /\ event'.type \notin DOMAIN TargetStatus) =>
         \A t \in DOMAIN transactions :
           t \in DOMAIN transactions' /\ transactions'[t].status = transactions[t].status]_vars

\* C37 as stated: no two transactions ever carry the same provider
\* payment-intent identifier (the mock provider included), so one provider
\* event changes at most one transaction and every transaction created by
\* checkout is reached by an event for its identifier.
C37_IntentIdsUnique ==
    \A t1, t2 \in DOMAIN transactions :
      t1 # t2 => transactions[t1].provider_payment_intent_id
                   # transactions[t2].provider_payment_intent_id

C38_OneAcceptedPerListing ==
    \A o1, o2 \in DOMAIN offers :
      ( /\ o1 # o2
        /\ offers[o1].listing_id = offers[o2].listing_id
        /\ offers[o1].status = "accepted" )
      => offers[o2].status # "accepted"

\* C39: in every reachable state every offer's status is pending, accepted
\* or rejected and every negotiation's status is open or closed: no
\* operation sets an offer to withdrawn or expired or a negotiation to
\* cancelled.
C39_StatusesUsed ==
    /\ \A o \in DOMAIN offers : offers[o].status \in {"pending", "accepted", "rejected"}
    /\ \A o \in DOMAIN negotiations : negotiations[o].status \in {"open", "closed"}

\* a decline has been written and answered: the offer is rejected and its
\* negotiation closed
C39_Witness ==
    /\ last.op = "decline" /\ last.result = "ok"
    /\ offers[RacedOffer].status = "rejected"
    /\ negotiations[RacedOffer] = NegotiationRow("closed", "Offer declined")

====
